---- MODULE Spec2Model ----
(***************************************************************************)
(* A model of the PyNeoFile archive engine (src/pyneofile.py): the         *)
(* delimiter-framed container format, its writer (_write_global_header,    *)
(* _build_record, pack_iter_neo, repack_neo) and its reader                *)
(* (_read_cstring, _parse_global_header, _parse_record and the public      *)
(* read operations).                                                       *)
(*                                                                         *)
(* Bytes are integers 0..255; a byte string and a text string are both a   *)
(* sequence of such integers (the model's text is ASCII, on which UTF-8    *)
(* encoding is the identity on code units; the only non-ASCII byte of the  *)
(* model is 0xFF, which no UTF-8 sequence contains, so decoding a string   *)
(* that holds it fails).                                                   *)
(***************************************************************************)
EXTENDS Integers, Sequences, FiniteSets, TLC

VARIABLES
    fs,          \* the resolved format spec of the running operation
    items,       \* pack input: the snapshot of the item list
    compression, \* the compression argument of pack / repack
    cstype,      \* the digest name used for checksumtypes[0..2]
    outmode,     \* "buffer" (outfile None or '-') or "path"
    pc,          \* position of the writer pipeline
    idx,         \* loop index of the writer pipeline
    written,     \* bytes handed to the output sink so far
    disk,        \* bytes of the output file visible to another reader
    open_files,  \* file objects opened from a path and not yet closed
    archive,     \* the bytes a read operation is given
    result,      \* what the last read operation returned or raised
    env,         \* the host: whether the lzma module imported, the clock
    tamper,      \* what was done to the archive between its writer and its reader
    infile       \* repack input: the bytes of the archive (None for pack)

vars == <<fs, items, compression, cstype, outmode, pc, idx, written, disk,
          open_files, archive, result, env, tamper, infile>>

-----------------------------------------------------------------------------
(* Text constants of the program, as byte strings.                         *)

Str(s) ==
    CASE s = ""        -> <<>>
      [] s = "0"       -> <<48>>
      [] s = "none"    -> <<110, 111, 110, 101>>
      [] s = "auto"    -> <<97, 117, 116, 111>>
      [] s = "zlib"    -> <<122, 108, 105, 98>>
      [] s = "gzip"    -> <<103, 122, 105, 112>>
      [] s = "bz2"     -> <<98, 122, 50>>
      [] s = "lzma"    -> <<108, 122, 109, 97>>
      [] s = "gz"      -> <<103, 122>>
      [] s = "z"       -> <<122>>
      [] s = "xz"      -> <<120, 122>>
      [] s = "bz"      -> <<98, 122>>
      [] s = "bzip"    -> <<98, 122, 105, 112>>
      [] s = "bzip2"   -> <<98, 122, 105, 112, 50>>
      [] s = "bogus"   -> <<98, 111, 103, 117, 115>>
      [] s = "crc32"   -> <<99, 114, 99, 51, 50>>
      [] s = "md5"     -> <<109, 100, 53>>
      [] s = "sha1"    -> <<115, 104, 97, 49>>
      [] s = "sha224"  -> <<115, 104, 97, 50, 50, 52>>
      [] s = "sha256"  -> <<115, 104, 97, 50, 53, 54>>
      [] s = "sha384"  -> <<115, 104, 97, 51, 56, 52>>
      [] s = "sha512"  -> <<115, 104, 97, 53, 49, 50>>
      [] s = "blake2b" -> <<98, 108, 97, 107, 101, 50, 98>>
      [] s = "blake2s" -> <<98, 108, 97, 107, 101, 50, 115>>
      [] s = "json"    -> <<106, 115, 111, 110>>
      [] s = "UTF-8"   -> <<85, 84, 70, 45, 56>>
      [] s = "posix"   -> <<112, 111, 115, 105, 120>>
      [] s = "ArchiveFile" -> <<65, 114, 99, 104, 105, 118, 101, 70, 105, 108, 101>>
      [] s = "config"  -> <<99, 111, 110, 102, 105, 103>>
      [] s = "NeoFile" -> <<78, 101, 111, 70, 105, 108, 101>>
      [] s = "001"     -> <<48, 48, 49>>
      [] s = "./"      -> <<46, 47>>
      [] s = "/"       -> <<47>>

\* bytes.lower() / str.lower() on ASCII
Lower(s) == [i \in 1..Len(s) |-> IF s[i] >= 65 /\ s[i] <= 90 THEN s[i] + 32 ELSE s[i]]

StartsWith(s, p) == Len(s) >= Len(p) /\ SubSeq(s, 1, Len(p)) = p

EndsWith(s, p) == Len(s) >= Len(p) /\ SubSeq(s, Len(s) - Len(p) + 1, Len(s)) = p

\* u(): decode UTF-8; FALSE when the bytes do not decode
Decodable(s) == \A i \in 1..Len(s) : s[i] < 128

-----------------------------------------------------------------------------
(* Checksums: _hex, _crc32_hex, _checksum.  CRC-32 is computed as zlib     *)
(* computes it (reflected polynomial EDB88320, initial value and final XOR *)
(* FFFFFFFF); a 32-bit value is a pair <<high 16 bits, low 16 bits>>.      *)

HexDigit(k) == IF k < 10 THEN 48 + k ELSE 87 + k

RECURSIVE _hex(_)
_hex(n) == IF n < 16 THEN <<HexDigit(n)>> ELSE _hex(n \div 16) \o <<HexDigit(n % 16)>>

RECURSIVE Xor(_, _)
Xor(a, b) ==
    IF a = 0 THEN b
    ELSE IF b = 0 THEN a
    ELSE ((a + b) % 2) + 2 * Xor(a \div 2, b \div 2)

Xor32(x, y) == <<Xor(x[1], y[1]), Xor(x[2], y[2])>>

Shr1(x) == <<x[1] \div 2, (x[2] \div 2) + 32768 * (x[1] % 2)>>

CrcStep(x) == IF x[2] % 2 = 1 THEN Xor32(Shr1(x), <<60856, 33568>>) ELSE Shr1(x)

CrcTable == [n \in 0..255 |->
    CrcStep(CrcStep(CrcStep(CrcStep(CrcStep(CrcStep(CrcStep(CrcStep(<<0, n>>))))))))]

CrcByte(crc, byte) ==
    Xor32(CrcTable[Xor(crc[2] % 256, byte)],
          <<crc[1] \div 256, (crc[2] \div 256) + 256 * (crc[1] % 256)>>)

\* the running CRC over data[lo..hi]; the range is halved so that a long
\* buffer does not nest the evaluation once per byte
RECURSIVE CrcUpdate(_, _, _, _)
CrcUpdate(crc, data, lo, hi) ==
    IF lo > hi THEN crc
    ELSE IF lo = hi THEN CrcByte(crc, data[lo])
    ELSE LET mid  == (lo + hi) \div 2
             left == CrcUpdate(crc, data, lo, mid)
         IN  IF left[1] >= 0 THEN CrcUpdate(left, data, mid + 1, hi) ELSE left

Hex4(n) == <<HexDigit(n \div 4096), HexDigit((n \div 256) % 16),
             HexDigit((n \div 16) % 16), HexDigit(n % 16)>>

_crc32_hex(data) ==
    LET c == Xor32(CrcUpdate(<<65535, 65535>>, data, 1, Len(data)), <<65535, 65535>>)
    IN  Hex4(c[1]) \o Hex4(c[2])

\* _checksum: [err, val]; the hashlib digests (md5, sha*) are not modelled
_checksum(data, t) ==
    LET lt == Lower(t)
    IN  IF lt = <<>> \/ lt = Str("none") THEN [err |-> "", val |-> Str("0")]
        ELSE IF lt = Str("crc32") THEN [err |-> "", val |-> _crc32_hex(data)]
        ELSE [err |-> "Unsupported checksum", val |-> <<>>]

-----------------------------------------------------------------------------
(* int(x, 16) on a byte string: an optional sign, an optional 0x prefix    *)
(* and hexadecimal digits (the model's strings hold no whitespace and no   *)
(* underscore).  [ok, val]; a value beyond 7 digits saturates at 2^31 - 1, *)
(* the largest integer of the model.                                       *)

HexVal(c) ==
    IF c >= 48 /\ c <= 57 THEN c - 48
    ELSE IF c >= 97 /\ c <= 102 THEN c - 87
    ELSE IF c >= 65 /\ c <= 70 THEN c - 55
    ELSE -1

RECURSIVE HexNum(_, _, _)
HexNum(s, i, acc) == IF i > Len(s) THEN acc ELSE HexNum(s, i + 1, 16 * acc + HexVal(s[i]))

PyInt16(s) ==
    LET Value(neg, s2) ==
            LET Mag(s3) == IF Len(s3) > 7 THEN 2147483647 ELSE HexNum(s3, 1, 0)
                zeros == Cardinality({i \in 1..Len(s2) : \A j \in 1..i : s2[j] = 48})
            IN  IF Len(s2) = 0 \/ \E i \in 1..Len(s2) : HexVal(s2[i]) < 0
                THEN [ok |-> FALSE, val |-> 0]
                ELSE [ok |-> TRUE,
                      val |-> (IF neg THEN -1 ELSE 1) * Mag(SubSeq(s2, zeros + 1, Len(s2)))]
        Prefixed(neg, s1) ==
            Value(neg, IF Len(s1) >= 2 /\ s1[1] = 48 /\ s1[2] \in {120, 88}
                       THEN SubSeq(s1, 3, Len(s1)) ELSE s1)
    IN  Prefixed(Len(s) > 0 /\ s[1] = 45,
                 IF Len(s) > 0 /\ s[1] \in {43, 45} THEN SubSeq(s, 2, Len(s)) ELSE s)

\* int(x or b'0', 16)
IntOr0(s) == PyInt16(IF s = <<>> THEN Str("0") ELSE s)

-----------------------------------------------------------------------------
(* Compression: _norm_algo, _compress_bytes, _decompress_bytes,            *)
(* _auto_pick_for_size.  The codecs themselves are library code; each is   *)
(* modelled as a framing of the data: the codec's magic bytes, the level   *)
(* used, the data, and a length byte that decompression checks.            *)

LevelNone == -100

_norm_algo(a) ==
    LET l == Lower(IF a = <<>> THEN Str("none") ELSE a)
    IN  IF l = Str("gz") THEN Str("gzip")
        ELSE IF l \in {Str("bz"), Str("bzip"), Str("bzip2")} THEN Str("bz2")
        ELSE IF l = Str("z") THEN Str("zlib")
        ELSE IF l = Str("xz") THEN Str("lzma")
        ELSE l

CodecMagic(algo) ==
    CASE algo = Str("zlib") -> <<120>>
      [] algo = Str("gzip") -> <<31, 139>>
      [] algo = Str("bz2")  -> <<66, 90, 104>>
      [] algo = Str("lzma") -> <<253, 55, 122, 88, 90, 0>>

Deflate(data, algo, lvl) == CodecMagic(algo) \o <<lvl>> \o data \o <<Len(data) % 256>>

\* [err, data]
Inflate(data, algo) ==
    LET m == CodecMagic(algo)
        n == Len(data) - Len(m) - 2
    IN  IF n >= 0 /\ StartsWith(data, m) /\ data[Len(data)] = n % 256
        THEN [err |-> "", data |-> SubSeq(data, Len(m) + 2, Len(data) - 1)]
        ELSE [err |-> "codec error", data |-> <<>>]

\* [err, stored, algo]
_compress_bytes(data, algo0, level, have_lzma) ==
    LET Bad(m) == [err |-> m, stored |-> <<>>, algo |-> <<>>]
        Run(algo) ==
            LET zlib == algo = Str("zlib")
                gzip == algo = Str("gzip")
                bz2  == algo = Str("bz2")
                lzma == algo = Str("lzma")
                \* the level the codec is called with, and the least it takes
                lvl == IF level = LevelNone THEN (IF zlib \/ lzma THEN 6 ELSE 9)
                       ELSE IF level = -1 THEN 6 ELSE level
                least == IF zlib \/ gzip THEN -1 ELSE IF bz2 THEN 1 ELSE 0
            IN  IF algo = Str("none") THEN [err |-> "", stored |-> data, algo |-> algo]
                ELSE IF ~(zlib \/ gzip \/ bz2 \/ lzma) THEN Bad("Unknown compression")
                ELSE IF lzma /\ ~have_lzma THEN Bad("lzma not available")
                ELSE IF level # LevelNone /\ (level < least \/ level > 9)
                THEN Bad("codec error")
                ELSE [err |-> "", stored |-> Deflate(data, algo, lvl), algo |-> algo]
    IN  Run(_norm_algo(algo0))

\* [err, data]
_decompress_bytes(data, algo0, have_lzma) ==
    LET Run(algo) ==
            IF algo = Str("none") THEN [err |-> "", data |-> data]
            ELSE IF algo \in {Str("zlib"), Str("gzip"), Str("bz2")} THEN Inflate(data, algo)
            ELSE IF algo = Str("lzma") /\ have_lzma THEN Inflate(data, algo)
            ELSE IF algo = Str("lzma") THEN [err |-> "lzma not available", data |-> <<>>]
            ELSE [err |-> "Unknown compression", data |-> <<>>]
    IN  Run(_norm_algo(algo0))

\* a picker whose first threshold is inclusive
AutoPickInclusive(n) ==
    IF n <= 16384 THEN [algo |-> Str("none"), level |-> LevelNone]
    ELSE IF n >= 262144 THEN [algo |-> Str("bz2"), level |-> 9]
    ELSE [algo |-> Str("zlib"), level |-> 6]

_auto_pick_for_size(n) ==
    IF n < 16384 THEN [algo |-> Str("none"), level |-> LevelNone]
    ELSE IF n >= 262144 THEN [algo |-> Str("bz2"), level |-> 9]
    ELSE [algo |-> Str("zlib"), level |-> 6]

-----------------------------------------------------------------------------
(* Delimited I/O: _append_null, _append_nulls, _read_cstring, _read_fields.*)
(* A stream is the byte string and a cursor pos (0-based, as tell()).      *)

_append_null(x, d) == x \o d

RECURSIVE _append_nulls(_, _)
_append_nulls(arr, d) ==
    IF arr = <<>> THEN <<>> ELSE _append_null(Head(arr), d) \o _append_nulls(Tail(arr), d)

\* fp.read(n) at pos: the bytes, short at end of input
Read(data, pos, n) ==
    IF n <= 0 \/ pos >= Len(data) THEN <<>>
    ELSE SubSeq(data, pos + 1, IF pos + n > Len(data) THEN Len(data) ELSE pos + n)

CHUNK == 4096

\* whether d lies in buf at index i (0-based)
MatchAt(buf, d, i) == i + Len(d) <= Len(buf) /\ \A k \in 1..Len(d) : buf[i + k] = d[k]

\* the first index in lo..hi at which d lies in buf, -1 when there is none;
\* the range is halved, the lower half first
RECURSIVE FindIn(_, _, _, _)
FindIn(buf, d, lo, hi) ==
    IF lo > hi THEN -1
    ELSE IF lo = hi THEN (IF MatchAt(buf, d, lo) THEN lo ELSE -1)
    ELSE LET mid  == (lo + hi) \div 2
             left == FindIn(buf, d, lo, mid)
         IN  IF left # -1 THEN left ELSE FindIn(buf, d, mid + 1, hi)

\* bytes.find(d) from index lo (0-based), -1 when absent
Find(buf, d, lo) == FindIn(buf, d, lo, Len(buf) - Len(d))

\* the single-byte loop of _read_cstring (lines 283-295)
RECURSIVE ReadCString1(_, _, _, _, _)
ReadCString1(data, pos, d, chunksize, out) ==
    LET Got(chunk) ==
            LET At(i) ==
                    IF i # -1
                    THEN [out |-> out \o SubSeq(chunk, 1, i), pos |-> pos + i + 1,
                          hang |-> FALSE]
                    ELSE ReadCString1(data, pos + Len(chunk), d, chunksize, out \o chunk)
            IN  IF chunk = <<>> THEN [out |-> out, pos |-> pos, hang |-> FALSE]
                ELSE At(Find(chunk, d, 0))
    IN  Got(Read(data, pos, chunksize))

\* the general loop of _read_cstring (lines 297-314); seen holds the
\* (cursor, buffer) pairs the loop has been in: coming back to one of them
\* is a loop that never ends
RECURSIVE ReadCStringN(_, _, _, _, _, _)
ReadCStringN(data, pos, d, chunksize, buf, seen) ==
    LET keep == Len(d) - 1
        Got(chunk) ==
            LET Joined(buf2, pos2) ==
                    LET Carry(buf3, pos3) ==
                            IF <<pos3, buf3>> \in seen
                            THEN [out |-> <<>>, pos |-> pos3, hang |-> TRUE]
                            ELSE ReadCStringN(data, pos3, d, chunksize, buf3,
                                              seen \cup {<<pos3, buf3>>})
                        Found(i) ==
                            IF i # -1
                            THEN [out |-> SubSeq(buf2, 1, i),
                                  pos |-> IF pos2 - (Len(buf2) - (i + Len(d))) < 0 THEN 0
                                          ELSE pos2 - (Len(buf2) - (i + Len(d))),
                                  hang |-> FALSE]
                            ELSE IF keep > 0 /\ Len(buf2) >= keep
                            THEN Carry(SubSeq(buf2, Len(buf2) - keep + 1, Len(buf2)),
                                       IF pos2 - keep < 0 THEN 0 ELSE pos2 - keep)
                            ELSE Carry(buf2, pos2)
                    IN  Found(Find(buf2, d, 0))
            IN  IF chunk = <<>> THEN [out |-> buf, pos |-> pos, hang |-> FALSE]
                ELSE Joined(buf \o chunk, pos + Len(chunk))
    IN  Got(Read(data, pos, chunksize))

\* [out, pos, hang]
_read_cstring(data, pos, d) ==
    IF Len(d) = 1 THEN ReadCString1(data, pos, d, CHUNK, <<>>)
    ELSE ReadCStringN(data, pos, d, CHUNK, <<>>, {<<pos, <<>>>>})

\* [vals, pos, hang]: n fields read one after the other (lines 316-320);
\* the count is halved so that a long header does not nest the evaluation
\* once per field
RECURSIVE _read_fields(_, _, _, _)
_read_fields(data, pos, n, d) ==
    LET One(f) == [vals |-> IF f.hang THEN <<>> ELSE <<f.out>>, pos |-> f.pos,
                   hang |-> f.hang]
        Halves(l) ==
            LET Second(r) == [vals |-> l.vals \o r.vals, pos |-> r.pos, hang |-> r.hang]
            IN  IF l.hang THEN l ELSE Second(_read_fields(data, l.pos, n - (n \div 2), d))
    IN  IF n <= 0 THEN [vals |-> <<>>, pos |-> pos, hang |-> FALSE]
        ELSE IF n = 1 THEN One(_read_cstring(data, pos, d))
        ELSE Halves(_read_fields(data, pos, n \div 2, d))

-----------------------------------------------------------------------------
(* JSON side-data.  A JSON object is a sequence of [k, v] members, k a     *)
(* one-character key and v a one-digit number; json.dumps with the         *)
(* separators (',', ':') writes {"k":1}, json.loads reads that form back   *)
(* and raises on anything else (the caller turns that into {}).            *)

RECURSIVE JsonMembers(_)
JsonMembers(j) ==
    IF j = <<>> THEN <<>>
    ELSE (IF Len(j) > 1 THEN JsonMembers(SubSeq(j, 1, Len(j) - 1)) \o <<44>> ELSE <<>>)
         \o <<34, j[Len(j)].k, 34, 58, 48 + j[Len(j)].v>>

JsonDumps(j) == <<123>> \o JsonMembers(j) \o <<125>>

\* [err, val]
JsonLoads(t) ==
    LET n == (Len(t) - 1) \div 6
        val == [m \in 1..n |-> [k |-> t[6 * m - 3], v |-> t[6 * m] - 48]]
    IN  IF t = <<123, 125>> THEN [err |-> "", val |-> <<>>]
        ELSE IF Len(t) >= 7 /\ Len(t) % 6 = 1 /\ Decodable(t)
                /\ \A m \in 1..n : /\ val[m].v \in 0..9
                                   /\ val[m].k \notin {34, 92} /\ val[m].k >= 32
                /\ t = JsonDumps(val)
        THEN [err |-> "", val |-> val]
        ELSE [err |-> "json error", val |-> <<>>]

-----------------------------------------------------------------------------
(* The global header: _ver_digits, _write_global_header,                   *)
(* _parse_global_header.                                                   *)

_ver_digits(ver) ==
    LET keep == {i \in 1..Len(ver) : ver[i] >= 48 /\ ver[i] <= 57}
        digits == [k \in 1..Cardinality(keep) |->
                     ver[CHOOSE i \in keep : Cardinality({j \in keep : j <= i}) = k]]
    IN  IF digits = <<>> THEN Str("001") ELSE digits

\* [err, out]: err is set when _checksum raises
_write_global_header(f, numfiles, encoding, checksumtype) ==
    LET d == f.format_delimiter
        extrafields == _hex(0)
        Emit(out) ==
            LET Sum(header_cs) ==
                    [err |-> header_cs.err, out |-> out \o _append_null(header_cs.val, d)]
            IN  Sum(_checksum(out, checksumtype))
        Sized(body) ==
            \* tmpfileoutstr is body and one more delimiter
            Emit(_append_null(f.format_magic \o _ver_digits(f.format_ver), d)
                 \o _append_null(_hex(Len(body \o _append_null(<<>>, d)) - Len(d)), d)
                 \o body)
    IN  Sized(_append_nulls(<<_hex(3 + 5 + 0 + 1), encoding, Str("posix"), _hex(numfiles),
                              _hex(Len(_append_null(extrafields, d))), extrafields>>, d)
              \o _append_null(checksumtype, d))

\* [err, pos, fencoding, fnumfiles, fchecksumtype]; err is "" or "hang" or
\* the exception raised
_parse_global_header(data, f) ==
    LET d == f.format_delimiter
        Fail(m) == [err |-> m, pos |-> 0, fencoding |-> <<>>, fnumfiles |-> 0,
                    fchecksumtype |-> <<>>]
        Head8(h, v) ==
            LET Counts(nf, ne) ==
                    LET Extras(x) ==
                            LET Tail2(t) ==
                                    IF \E k \in 1..Len(x.vals) : ~Decodable(x.vals[k])
                                    THEN Fail("ValueError")
                                    ELSE IF x.hang \/ Len(t.vals) < 1 THEN Fail("hang")
                                    ELSE IF ~Decodable(t.vals[1]) THEN Fail("ValueError")
                                    ELSE IF t.hang THEN Fail("hang")
                                    ELSE [err |-> "", pos |-> t.pos,
                                          fencoding |-> IF v[4] = <<>> THEN Str("UTF-8")
                                                        ELSE v[4],
                                          fnumfiles |-> nf.val, fchecksumtype |-> t.vals[1]]
                            IN  Tail2(_read_fields(data, x.pos, 2, d))
                    IN  IF ~nf.ok THEN Fail("ValueError")
                        ELSE IF Len(v) < 8 THEN Fail("hang")
                        ELSE IF ~ne.ok THEN Fail("ValueError")
                        ELSE Extras(_read_fields(data, h.pos, ne.val, d))
            IN  IF Len(v) < 4 THEN Fail("hang")
                ELSE IF ~Decodable(v[4]) THEN Fail("ValueError")
                ELSE IF Len(v) < 5 THEN Fail("hang")
                ELSE IF ~Decodable(v[5]) THEN Fail("ValueError")
                ELSE IF Len(v) < 6 THEN Fail("hang")
                ELSE Counts(IntOr0(v[6]), IF Len(v) < 8 THEN IntOr0(<<>>) ELSE IntOr0(v[8]))
        Got(h) == Head8(h, h.vals)
    IN  Got(_read_fields(data, 0, 8, d))

-----------------------------------------------------------------------------
(* Record parsing: _index_json_and_checks, _parse_record.                  *)

\* Python's None, where a byte string may stand
None == <<-1>>

\* vals[i] for a Python index i (0-based, negative from the end): [ok, val]
PyIndex(vals, i) ==
    IF i >= 0 /\ i < Len(vals) THEN [ok |-> TRUE, val |-> vals[i + 1]]
    ELSE IF i < 0 /\ i >= 0 - Len(vals) THEN [ok |-> TRUE, val |-> vals[Len(vals) + i + 1]]
    ELSE [ok |-> FALSE, val |-> <<>>]

CsNames == {Str("none"), Str("crc32"), Str("md5"), Str("sha1"), Str("sha224"),
            Str("sha256"), Str("sha384"), Str("sha512"), Str("blake2b"), Str("blake2s")}

IsHex(x) == x # <<>> /\ Decodable(x) /\ \A i \in 1..Len(x) : HexVal(x[i]) >= 0

\* a six-slot test on the two hexadecimal fields alone
SixSlotHexOnly(v2, v3, v4) == IsHex(v2) /\ IsHex(v3)

\* the six-slot test of line 403
SixSlot(v2, v3, v4) == IsHex(v2) /\ IsHex(v3) /\ Lower(v4) \in CsNames

\* [err, six, size, cst, cs, hct, cct, hcs, ccs]: 0-based field indices
_index_json_and_checks(vals) ==
    LET Opt(i) == IF i < Len(vals) THEN vals[i + 1] ELSE <<>>
        Fail(m) == [err |-> m, six |-> FALSE, size |-> 0, cst |-> 0, cs |-> 0,
                    hct |-> 0, cct |-> 0, hcs |-> 0, ccs |-> 0]
        \* idx_json_size is 27 in the six-slot layout and 26 otherwise;
        \* idx_extras_count is four fields on
        Slots(six, idx_json_size) ==
            LET Counted(cnt) ==
                    LET Indexed(count) ==
                            LET i == idx_json_size + 5 + count.val
                            IN  IF ~count.ok THEN Fail("ValueError")
                                ELSE [err |-> "", six |-> six, size |-> idx_json_size,
                                      cst |-> idx_json_size + 1, cs |-> idx_json_size + 2,
                                      hct |-> i, cct |-> i + 1, hcs |-> i + 2, ccs |-> i + 3]
                    IN  IF ~cnt.ok THEN Fail("IndexError") ELSE Indexed(IntOr0(cnt.val))
            IN  Counted(PyIndex(vals, idx_json_size + 4))
        Layout(six) == Slots(six, IF six THEN 27 ELSE 26)
    IN  IF Len(vals) < 25 THEN Fail("Record too short")
        ELSE IF Len(vals) = 25 THEN Fail("IndexError")
        ELSE IF IsHex(Opt(26)) /\ IsHex(Opt(27)) /\ ~Decodable(Opt(28)) THEN Fail("ValueError")
        ELSE Layout(SixSlot(Opt(26), Opt(27), Opt(28)))

\* the first exception among checks made in order: each check is "" or the
\* exception it raises
RECURSIVE FirstErr(_)
FirstErr(checks) ==
    IF checks = <<>> THEN ""
    ELSE IF Head(checks) # "" THEN Head(checks)
    ELSE FirstErr(Tail(checks))

\* u(vals[i]) as a check
TextAt(vals, i) ==
    IF ~PyIndex(vals, i).ok THEN "IndexError"
    ELSE IF ~Decodable(PyIndex(vals, i).val) THEN "ValueError"
    ELSE ""

\* to_int(x) / u(x) as checks
IntCheck(x) == IF IntOr0(x).ok THEN "" ELSE "ValueError"

TextCheck(x) == IF Decodable(x) THEN "" ELSE "ValueError"

\* stored_len taken from the size field alone
StoredLenOfSize(fcompression, fsize, fcsize) == fsize

\* stored_len of line 474
StoredLen(fcompression, fsize, fcsize) ==
    IF fcompression \notin {<<>>, Str("none")} /\ fcsize > 0 THEN fcsize ELSE fsize

\* a reader that verifies no content digest
VerifiesNoContent(skipchecksum, stored_len, listonly) == FALSE

\* whether line 495 verifies the content digest
VerifiesContent(skipchecksum, stored_len, listonly) ==
    ~skipchecksum /\ stored_len # 0 /\ ~listonly

\* an end marker that the end of the input also counts as
IsEndMarkerOrEof(first, second) ==
    (first = Str("0") /\ second = Str("0")) \/ (first = <<>> /\ second = <<>>)

\* whether line 430-433 takes the two fields read for the end marker
IsEndMarker(first, second) == first = Str("0") /\ second = Str("0")

ParseFail(m, name, pos) == [err |-> m, end |-> FALSE, rec |-> <<>>, pos |-> pos, name |-> name]

\* _parse_record returns [err, end, rec, pos, name]: err is "" (a record, or
\* the end marker when end is TRUE), "hang", or the exception raised; name
\* is the entry a checksum mismatch names.  It is written as the stages the
\* function goes through, each handing what it read to the next; o holds
\* the flags [listonly, skipchecksum, uncompress, skipjson, have_lzma].

\* lines 510-542: the returned content, the decoded JSON and the entry
RecordResult(data, pos, f, o, vals, p2, json_bytes, content_stored) ==
    LET I(k) == IntOr0(vals[k]).val
        Name(n) == IF StartsWith(n, Str("./")) \/ StartsWith(n, Str("/")) THEN n
                   ELSE Str("./") \o n
        Loaded(j) == IF json_bytes # <<>> /\ j.err = "" THEN j.val ELSE <<>>
        Inflated(x) == IF x.err = "" THEN x.data ELSE content_stored
        fields == FirstErr(<<TextCheck(vals[4]), IntCheck(vals[19]), IntCheck(vals[20]),
                             TextCheck(vals[5]), IntCheck(vals[1]), IntCheck(vals[7]),
                             IntCheck(vals[8]), IntCheck(vals[9]), IntCheck(vals[10]),
                             IntCheck(vals[11]), IntCheck(vals[12]), IntCheck(vals[15]),
                             TextCheck(vals[16]), IntCheck(vals[17]), TextCheck(vals[18]),
                             TextCheck(vals[25])>>)
    IN  IF fields # "" THEN ParseFail(fields, <<>>, pos)
        ELSE [err |-> "", end |-> FALSE, name |-> <<>>,
              pos |-> p2 + Len(Read(data, p2, Len(f.format_delimiter))),
              rec |-> [fid |-> I(19), finode |-> I(20), fname |-> Name(vals[4]),
                       flinkname |-> vals[5], ftype |-> I(1), fsize |-> I(6),
                       fcsize |-> I(14), fatime |-> I(7), fmtime |-> I(8), fctime |-> I(9),
                       fbtime |-> I(10), fmode |-> I(11), fwinattributes |-> I(12),
                       fuid |-> I(15), funame |-> vals[16], fgid |-> I(17),
                       fgname |-> vals[18],
                       fcompression |-> IF vals[13] = <<>> THEN Str("none") ELSE vals[13],
                       fseeknext |-> vals[25],
                       fjson |-> Loaded(JsonLoads(json_bytes)),
                       fcontent |->
                           IF o.listonly THEN None
                           ELSE IF o.uncompress /\ vals[13] \notin {<<>>, Str("none")}
                                   /\ content_stored # <<>>
                           THEN Inflated(_decompress_bytes(content_stored, vals[13],
                                                           o.have_lzma))
                           ELSE content_stored]]

\* a reader that takes the digest fields and verifies no digest
RecordChecksNone(data, pos, f, o, vals, ix, p2, fjsonsize, json_bytes, stored_len, content_stored) ==
    IF FirstErr(<<TextAt(vals, ix.hct), TextAt(vals, ix.cct), TextAt(vals, ix.hcs),
                  TextAt(vals, ix.ccs), TextCheck(vals[ix.cst + 1]),
                  TextCheck(vals[ix.cs + 1])>>) # ""
    THEN ParseFail("IndexError", <<>>, pos)
    ELSE RecordResult(data, pos, f, o, vals, p2, json_bytes, content_stored)

\* lines 484-508: the digest fields, and the digests verified
RecordChecks(data, pos, f, o, vals, ix, p2, fjsonsize, json_bytes, stored_len, content_stored) ==
    LET fname == vals[4]
        skipj == o.listonly \/ o.skipjson
        digests == FirstErr(<<TextAt(vals, ix.hct), TextAt(vals, ix.cct),
                              TextAt(vals, ix.hcs), TextAt(vals, ix.ccs),
                              TextCheck(vals[ix.cst + 1]), TextCheck(vals[ix.cs + 1])>>)
        JsonSum(json_cs) ==
            IF json_cs.err # "" \/ ~Decodable(fname) THEN "ValueError"
            ELSE IF json_cs.val # vals[ix.cs + 1] THEN "JSON checksum mismatch"
            ELSE ""
        ContentSum(content_cs) ==
            IF content_cs.err # "" \/ ~Decodable(fname) THEN "ValueError"
            ELSE IF content_cs.val # PyIndex(vals, ix.ccs).val THEN "Content checksum mismatch"
            ELSE ""
        json_err == IF fjsonsize # 0 /\ ~o.skipchecksum /\ ~skipj
                    THEN JsonSum(_checksum(json_bytes, vals[ix.cst + 1])) ELSE ""
        content_err == IF VerifiesContent(o.skipchecksum, stored_len, o.listonly)
                       THEN ContentSum(_checksum(content_stored, PyIndex(vals, ix.cct).val))
                       ELSE ""
        Raised(m) == ParseFail(m, IF m = "ValueError" THEN <<>> ELSE fname, pos)
    IN  IF digests # "" THEN ParseFail(digests, <<>>, pos)
        ELSE IF json_err # "" THEN Raised(json_err)
        ELSE IF content_err # "" THEN Raised(content_err)
        ELSE RecordResult(data, pos, f, o, vals, p2, json_bytes, content_stored)

\* lines 476-482: the stored content, read or skipped, and its delimiter
RecordContent(data, pos, f, o, vals, ix, p1, fjsonsize, json_bytes, stored_len) ==
    LET content_stored == IF stored_len = 0 \/ o.listonly THEN <<>>
                          ELSE IF stored_len < 0 THEN Read(data, p1, Len(data))
                          ELSE Read(data, p1, stored_len)
    IN  RecordChecks(data, pos, f, o, vals, ix,
                     IF stored_len = 0 THEN p1
                     ELSE IF o.listonly
                     THEN (IF p1 + stored_len < 0 THEN 0 ELSE p1 + stored_len)
                     ELSE p1 + Len(content_stored),
                     fjsonsize, json_bytes, stored_len, content_stored)

\* lines 440-474: the indices of the header fields, the JSON payload, read
\* or skipped, and the content's length
RecordJson(data, pos, f, o, vals, p0, ix) ==
    LET d == f.format_delimiter
        skipj == o.listonly \/ o.skipjson
        jsz == IntOr0(vals[ix.size + 1])
        fsize == IntOr0(vals[6])
        fcsize == IntOr0(vals[14])
        json_bytes == IF jsz.val > 0 /\ ~skipj THEN Read(data, p0, jsz.val) ELSE <<>>
    IN  IF ix.err # "" THEN ParseFail(ix.err, <<>>, pos)
        ELSE IF ~jsz.ok \/ ~fsize.ok \/ ~fcsize.ok \/ ~Decodable(vals[13])
        THEN ParseFail("ValueError", <<>>, pos)
        ELSE RecordContent(data, pos, f, o, vals, ix,
                           IF jsz.val > 0
                           THEN (IF skipj THEN p0 + jsz.val + Len(d)
                                 ELSE p0 + Len(json_bytes)
                                      + Len(Read(data, p0 + Len(json_bytes), Len(d))))
                           ELSE p0 + Len(Read(data, p0, Len(d))),
                           jsz.val, json_bytes, StoredLen(vals[13], fsize.val, fcsize.val))

\* lines 436-439: the header fields
RecordFields(data, pos, f, o, fl) ==
    IF fl.hang THEN ParseFail("hang", <<>>, pos)
    ELSE IF Len(fl.vals) < 25 THEN ParseFail("Record too short", <<>>, pos)
    ELSE RecordJson(data, pos, f, o, fl.vals, fl.pos, _index_json_and_checks(fl.vals))

\* lines 429-438: the two fields every record starts with (the end marker
\* when both are "0"), then the count of fields
RecordStart(data, pos, f, o, two) ==
    IF two.hang THEN ParseFail("hang", <<>>, pos)
    ELSE IF IsEndMarker(two.vals[1], two.vals[2])
    THEN [err |-> "", end |-> TRUE, rec |-> <<>>, pos |-> two.pos, name |-> <<>>]
    ELSE IF ~IntOr0(two.vals[2]).ok THEN ParseFail("ValueError", <<>>, pos)
    ELSE RecordFields(data, pos, f, o,
                      _read_fields(data, two.pos, IntOr0(two.vals[2]).val,
                                   f.format_delimiter))

_parse_record(data, pos, f, listonly, skipchecksum, uncompress, skipjson, have_lzma) ==
    RecordStart(data, pos, f,
                [listonly |-> listonly, skipchecksum |-> skipchecksum,
                 uncompress |-> uncompress, skipjson |-> skipjson, have_lzma |-> have_lzma],
                _read_fields(data, pos, 2, f.format_delimiter))

-----------------------------------------------------------------------------
(* Format specs: _default_formatspecs, _decode_escape,                     *)
(* _load_formatspecs_from_ini, _ensure_formatspecs.  A host is the two     *)
(* environment variables ("" when unset) and the INI files that exist, by  *)
(* path; an INI file is what ConfigParser reads of it: bad when the parser *)
(* raises, else its sections in file order, each a name and its options.   *)

_default_formatspecs ==
    [format_magic |-> Str("NeoFile"), format_ver |-> Str("001"),
     format_delimiter |-> <<0>>, new_style |-> TRUE]

\* the escapes \xNN, \n, \t and \\ (the model's INI files hold no other);
\* an escape that does not parse leaves the whole string as it is
_decode_escape(s) ==
    LET RECURSIVE Dec(_)
        Dec(t) ==
            IF t = <<>> THEN [ok |-> TRUE, out |-> <<>>]
            ELSE IF t[1] # 92
            THEN [ok |-> Dec(Tail(t)).ok, out |-> <<t[1]>> \o Dec(Tail(t)).out]
            ELSE IF Len(t) >= 4 /\ t[2] = 120 /\ HexVal(t[3]) >= 0 /\ HexVal(t[4]) >= 0
            THEN [ok |-> Dec(SubSeq(t, 5, Len(t))).ok,
                  out |-> <<16 * HexVal(t[3]) + HexVal(t[4])>> \o Dec(SubSeq(t, 5, Len(t))).out]
            ELSE IF Len(t) >= 2 /\ t[2] \in {110, 116, 92}
            THEN [ok |-> Dec(SubSeq(t, 3, Len(t))).ok,
                  out |-> <<CASE t[2] = 110 -> 10 [] t[2] = 116 -> 9 [] OTHER -> 92>>
                          \o Dec(SubSeq(t, 3, Len(t))).out]
            ELSE [ok |-> FALSE, out |-> <<>>]
    IN  IF Dec(s).ok THEN Dec(s).out ELSE s

\* a host with no INI file
NoIni == [PYNEOFILE_INI |-> "", PYARCHIVE_INI |-> "", files |-> <<>>]

\* lines 194-236 with no arguments: [err, none, specs], none when no file
\* or no section is picked (the function then returns None)
_load_formatspecs_from_ini(host) ==
    LET cands == SelectSeq(<<host.PYNEOFILE_INI, host.PYARCHIVE_INI>>, LAMBDA q : q # "")
                 \o <<"neofile.ini">>
        isfile == {i \in 1..Len(cands) : cands[i] \in DOMAIN host.files}
        \* b(): code points above 127 take two bytes in UTF-8
        Bytes(t) == IF t = <<>> THEN <<>>
                    ELSE IF \A i \in 1..Len(t) : t[i] < 128 THEN t
                    ELSE [i \in 1..(2 * Len(t)) |->
                            IF i % 2 = 1 THEN 192 + (t[(i + 1) \div 2] \div 64)
                            ELSE 128 + (t[i \div 2] % 64)]
        Section(cp, name) == {i \in 1..Len(cp) : cp[i].name = name}
        Get(sec, opt, default) == IF opt \in DOMAIN sec.opts THEN sec.opts[opt] ELSE default
        Specs(sec) ==
            [format_magic |-> Get(sec, "magic", Str("ArchiveFile")),
             format_ver |-> _ver_digits(Get(sec, "ver", Str("001"))),
             format_delimiter |-> Bytes(_decode_escape(Get(sec, "delimiter", <<92, 120, 48, 48>>))),
             new_style |-> Lower(Get(sec, "newstyle", <<116, 114, 117, 101>>))
                             \in {<<116, 114, 117, 101>>, <<49>>, <<121, 101, 115>>},
             format_name |-> sec.name]
        Chosen(cp) ==
            LET config == Section(cp, Str("config"))
                other == {i \in 1..Len(cp) : Lower(cp[i].name) # Str("config")}
                First(S) == CHOOSE i \in S : \A j \in S : i <= j
            IN  IF /\ config # {}
                   /\ "default" \in DOMAIN cp[First(config)].opts
                   /\ Section(cp, cp[First(config)].opts["default"]) # {}
                THEN [err |-> "", none |-> FALSE,
                      specs |-> Specs(cp[First(Section(cp, cp[First(config)].opts["default"]))])]
                ELSE IF other # {}
                THEN [err |-> "", none |-> FALSE, specs |-> Specs(cp[First(other)])]
                ELSE [err |-> "", none |-> TRUE, specs |-> <<>>]
        Parsed(ini) == IF ini.bad THEN [err |-> "configparser error", none |-> TRUE, specs |-> <<>>]
                       ELSE Chosen(ini.sections)
    IN  IF isfile = {} THEN [err |-> "", none |-> TRUE, specs |-> <<>>]
        ELSE Parsed(host.files[cands[CHOOSE i \in isfile : \A j \in isfile : i <= j]])

\* [err, fs]; specs is <<>> for no map and for an empty one
_ensure_formatspecs(specs, host) ==
    LET Env(ini) ==
            [err |-> ini.err,
             fs |-> IF ini.err # "" \/ ini.none THEN _default_formatspecs
                    ELSE ini.specs]
    IN  IF DOMAIN specs # {}
        THEN [err |-> "",
              fs |-> [k \in DOMAIN _default_formatspecs \cup DOMAIN specs |->
                        IF k \in DOMAIN specs THEN specs[k] ELSE _default_formatspecs[k]]]
        ELSE Env(_load_formatspecs_from_ini(host))

-----------------------------------------------------------------------------
(* The public read operations.  Each returns a record                      *)
(*   [err, name, entries, names, map, ok, details]                         *)
(* err is "" when the operation returned, "hang" when it never returns,    *)
(* and otherwise the exception it raised.                                  *)

\* a loop that ends at a record that fails as it ends at the end marker
ParseRecordsLenient(data, pos, f, listonly, skipchecksum, uncompress, skipjson, have_lzma, acc) ==
    LET Step(r) ==
            IF r.err # "" \/ r.end THEN [err |-> "", name |-> <<>>, list |-> acc]
            ELSE [err |-> "", name |-> <<>>, list |-> Append(acc, r.rec)]
    IN  Step(_parse_record(data, pos, f, listonly, skipchecksum, uncompress, skipjson,
                           have_lzma))

\* the loop of lines 551-555 and 787-805: [err, name, list]
RECURSIVE ParseRecords(_, _, _, _, _, _, _, _, _)
ParseRecords(data, pos, f, listonly, skipchecksum, uncompress, skipjson, have_lzma, acc) ==
    LET Step(r) ==
            IF r.err # "" THEN [err |-> r.err, name |-> r.name, list |-> <<>>]
            ELSE IF r.end THEN [err |-> "", name |-> <<>>, list |-> acc]
            ELSE ParseRecords(data, r.pos, f, listonly, skipchecksum, uncompress, skipjson,
                              have_lzma, Append(acc, r.rec))
    IN  Step(_parse_record(data, pos, f, listonly, skipchecksum, uncompress, skipjson,
                           have_lzma))

NoResult ==
    [op |-> "", err |-> "", name |-> <<>>, entries |-> <<>>, names |-> <<>>,
     map |-> <<>>, ok |-> FALSE, details |-> <<>>]

\* a reader that stops at the count of the global header
ArrayByCount(data, f, listonly, skipchecksum, uncompress, skipjson, have_lzma) ==
    LET Parsed(top, rs) ==
            IF top.err # "" THEN [NoResult EXCEPT !.op = "array", !.err = top.err]
            ELSE IF rs.err # ""
            THEN [NoResult EXCEPT !.op = "array", !.err = rs.err, !.name = rs.name]
            ELSE [NoResult EXCEPT !.op = "array",
                    !.entries = SubSeq(rs.list, 1, IF top.fnumfiles < Len(rs.list)
                                                   THEN top.fnumfiles ELSE Len(rs.list))]
    IN  Parsed(_parse_global_header(data, f),
               ParseRecords(data, _parse_global_header(data, f).pos, f, listonly,
                            skipchecksum, uncompress, skipjson, have_lzma, <<>>))

archive_to_array_neo(data, f, listonly, skipchecksum, uncompress, skipjson, have_lzma) ==
    LET Parsed(top, rs) ==
            IF top.err # "" THEN [NoResult EXCEPT !.op = "array", !.err = top.err]
            ELSE IF rs.err # ""
            THEN [NoResult EXCEPT !.op = "array", !.err = rs.err, !.name = rs.name]
            ELSE [NoResult EXCEPT !.op = "array", !.entries = rs.list]
    IN  Parsed(_parse_global_header(data, f),
               ParseRecords(data, _parse_global_header(data, f).pos, f, listonly,
                            skipchecksum, uncompress, skipjson, have_lzma, <<>>))

\* the members of s at the indices in keep, in order
Filter(s, keep) ==
    [k \in 1..Cardinality(keep) |->
        s[CHOOSE i \in keep : Cardinality({j \in keep : j <= i}) = k]]

archivefilelistfiles_neo(data, f, include_dirs, skipjson, have_lzma) ==
    LET Listed(arr) ==
            IF arr.err # "" THEN [arr EXCEPT !.op = "list"]
            ELSE [NoResult EXCEPT !.op = "list",
                    !.names = Filter([i \in 1..Len(arr.entries) |-> arr.entries[i].fname],
                                     {i \in 1..Len(arr.entries) :
                                        include_dirs \/ arr.entries[i].ftype # 5})]
    IN  Listed(archive_to_array_neo(data, f, TRUE, TRUE, FALSE, skipjson, have_lzma))

archivefilevalidate_neo(data, f, skipjson, have_lzma) ==
    LET Walked(arr) ==
            IF arr.err # "" THEN [arr EXCEPT !.op = "validate"]
            ELSE [NoResult EXCEPT !.op = "validate", !.ok = TRUE,
                    !.details = [i \in 1..Len(arr.entries) |->
                                   [index |-> i - 1, name |-> arr.entries[i].fname,
                                    header_ok |-> TRUE, json_ok |-> TRUE,
                                    content_ok |-> TRUE]]]
    IN  Walked(archive_to_array_neo(data, f, FALSE, FALSE, FALSE, skipjson, have_lzma))

\* unpack_neo with outdir '-': the name-keyed map, a later entry of the same
\* name replacing an earlier one
unpack_neo(data, f, skipchecksum, uncompress, have_lzma) ==
    LET Mapped(arr, es) ==
            LET Last(n) == CHOOSE i \in 1..Len(es) :
                             es[i].fname = n /\ \A j \in 1..Len(es) : es[j].fname = n => j <= i
                Value(e) == IF e.ftype = 5 THEN None ELSE e.fcontent
            IN  IF arr.err # "" THEN [arr EXCEPT !.op = "unpack"]
                ELSE [NoResult EXCEPT !.op = "unpack",
                        !.map = [n \in {es[i].fname : i \in 1..Len(es)} |-> Value(es[Last(n)])]]
        Read1(arr) == Mapped(arr, arr.entries)
    IN  Read1(archive_to_array_neo(data, f, FALSE, skipchecksum, uncompress, FALSE, have_lzma))

-----------------------------------------------------------------------------
(* Builders: _build_record, and the body of the loop of pack_iter_neo.     *)

S_IFREG == 32768
S_IFDIR == 16384
MODE_FILE_DEFAULT == 438
MODE_DIR_DEFAULT == 493

\* a key that an item or a meta map does not hold
Missing == -1

\* lines 598-611, the JSON section: [err, raw, fields]
RecordJsonFields(jsondata, fjson_cs_type) ==
    LET Summed(raw_json, fjson_cs) ==
            [err |-> fjson_cs.err, raw |-> raw_json,
             fields |-> <<Str("json"), _hex(Len(jsondata)), _hex(Len(raw_json)),
                          fjson_cs_type, fjson_cs.val>>]
    IN  IF jsondata # <<>>
        THEN Summed(JsonDumps(jsondata), _checksum(JsonDumps(jsondata), fjson_cs_type))
        ELSE [err |-> "", raw |-> <<>>,
              fields |-> <<Str("none"), Str("0"), Str("0"), Str("none"), Str("0")>>]

\* lines 613-632: the sizes, the digests and the record's bytes
RecordFrame(d, fields, js, header_cs_type, content_cs_type, content_stored) ==
    LET rec_fields == fields \o js.fields \o <<_hex(Len(_append_null(Str("0"), d))), Str("0")>>
                      \o <<header_cs_type, content_cs_type>>
        record_fields_len_hex == _hex(Len(rec_fields) + 2)
        header_no_cs == _append_nulls(rec_fields, d)
        tmp_with_placeholders == _append_null(record_fields_len_hex, d) \o header_no_cs
                                 \o _append_null(<<>>, d) \o _append_null(<<>>, d)
        headersize_hex == _hex(Len(tmp_with_placeholders) - Len(d))
        Sized(header_with_sizes) ==
            LET Summed(header_checksum, content_checksum) ==
                    [err |-> FirstErr(<<js.err, header_checksum.err, content_checksum.err>>),
                     out |-> header_with_sizes \o _append_null(header_checksum.val, d)
                             \o _append_null(content_checksum.val, d)
                             \o js.raw \o d \o content_stored \o d]
            IN  Summed(_checksum(header_with_sizes, header_cs_type),
                       _checksum(content_stored, content_cs_type))
    IN  Sized(_append_null(headersize_hex, d) \o _append_null(record_fields_len_hex, d)
              \o header_no_cs)

\* [err, out]; checksumtypes is <<header, content, json>>
_build_record(f, meta, jsondata, content_stored, checksumtypes) ==
    RecordFrame(f.format_delimiter,
                <<_hex(meta.ftype), meta.fencoding, meta.fcencoding,
                  IF StartsWith(meta.fname, Str("./")) \/ StartsWith(meta.fname, Str("/"))
                  THEN meta.fname ELSE Str("./") \o meta.fname,
                  meta.flinkname, _hex(meta.fsize), _hex(meta.fatime), _hex(meta.fmtime),
                  _hex(meta.fctime), _hex(meta.fbtime), _hex(meta.fmode),
                  _hex(meta.fwinattributes), meta.fcompression, _hex(meta.fcsize),
                  _hex(meta.fuid), meta.funame, _hex(meta.fgid), meta.fgname, _hex(meta.fid),
                  _hex(meta.finode), _hex(meta.flinkcount), _hex(meta.fdev),
                  _hex(meta.fdev_minor), _hex(meta.fdev_major),
                  _hex(Len(f.format_delimiter))>>,
                RecordJsonFields(jsondata, checksumtypes[3]),
                checksumtypes[1],
                IF content_stored # <<>> THEN checksumtypes[2] ELSE Str("none"),
                content_stored)

\* name normalisation of lines 663-665
NormName(name) ==
    LET n == [i \in 1..Len(name) |-> IF name[i] = 92 THEN 47 ELSE name[i]]
    IN  IF StartsWith(n, Str("./")) \/ StartsWith(n, Str("/")) THEN n ELSE Str("./") \o n

\* a compression step that tries the chosen algorithm only
PackCompressOnce(raw, comp, level, have_lzma) ==
    LET Picked(algo0, pick) ==
            _compress_bytes(raw, IF algo0 = Str("auto") THEN pick.algo ELSE algo0,
                            IF algo0 = Str("auto") /\ level = LevelNone THEN pick.level
                            ELSE level, have_lzma)
    IN  Picked(Lower(IF comp = <<>> THEN Str("none") ELSE comp),
               _auto_pick_for_size(Len(raw)))

\* lines 673-683: the stored bytes and the algorithm recorded, [err, stored, algo]
PackCompress(raw, comp, level, have_lzma) ==
    LET Picked(algo0, pick) ==
            LET lvl == IF algo0 = Str("auto") /\ level = LevelNone THEN pick.level ELSE level
                Tried(first) ==
                    IF first.err = "" THEN first
                    ELSE _compress_bytes(raw, Str("zlib"), IF lvl = LevelNone THEN 6 ELSE lvl,
                                         have_lzma)
            IN  Tried(_compress_bytes(raw, IF algo0 = Str("auto") THEN pick.algo ELSE algo0,
                                      lvl, have_lzma))
    IN  Picked(Lower(IF comp = <<>> THEN Str("none") ELSE comp),
               _auto_pick_for_size(Len(raw)))

\* lines 649-694, one item: [err, out]
PackItemRecord(f, it, fid, comp, level, checksumtypes, encoding, e) ==
    LET mode  == IF it.kind = "dict" /\ it.mode # Missing THEN it.mode
                 ELSE IF it.is_dir THEN S_IFDIR + MODE_DIR_DEFAULT
                 ELSE S_IFREG + MODE_FILE_DEFAULT
        mtime == IF it.kind = "dict" /\ it.mtime # Missing THEN it.mtime ELSE e.now
        Stored(name, dir, raw, c) ==
            IF c.err # "" THEN [err |-> c.err, out |-> <<>>]
            ELSE _build_record(f,
                     [ftype |-> IF dir THEN 5 ELSE 0, fencoding |-> encoding,
                      fcencoding |-> encoding, fname |-> name, flinkname |-> <<>>,
                      fsize |-> Len(raw), fatime |-> mtime, fmtime |-> mtime,
                      fctime |-> mtime, fbtime |-> mtime, fmode |-> mode,
                      fwinattributes |-> 0, fcompression |-> c.algo,
                      fcsize |-> Len(c.stored), fuid |-> 0, funame |-> <<>>, fgid |-> 0,
                      fgname |-> <<>>, fid |-> fid, finode |-> fid, flinkcount |-> 1,
                      fdev |-> 0, fdev_minor |-> 0, fdev_major |-> 0],
                     <<>>, c.stored, checksumtypes)
        Raw(name, dir, raw) == Stored(name, dir, raw, PackCompress(raw, comp, level, e.have_lzma))
        Named(name, dir) == Raw(name, dir, IF dir \/ it.data = None THEN <<>> ELSE it.data)
        Item(name) == Named(name, it.is_dir \/ EndsWith(name, Str("/")))
    IN  IF it.kind = "bad" THEN [err |-> "Bad item", out |-> <<>>]
        ELSE Item(NormName(it.name))

\* an end marker of one field
EndMarkerOne(d) == _append_nulls(<<Str("0")>>, d)

EndMarker(d) == _append_nulls(<<Str("0"), Str("0")>>, d)

-----------------------------------------------------------------------------
(* Inputs.                                                                 *)

MaxItems == 2
LongName == CHUNK - 3

Delims == {<<0>>, <<1>>, <<0, 255>>}

FormatSpecs == {_ensure_formatspecs([format_delimiter |-> d], NoIni).fs : d \in Delims}

\* contents: empty, plain, and the bytes of the end marker (which hold the
\* delimiter)
Contents(d) == <<<<>>, <<104, 105>>, EndMarker(d)>>

\* a member of the list pack_neo makes of a mapping (lines 708-711)
FileItem(name, data) ==
    [kind |-> "dict", name |-> name,
     is_dir |-> (data = None \/ EndsWith(name, Str("/"))),
     data |-> IF data = None \/ EndsWith(name, Str("/")) THEN None ELSE data,
     mtime |-> Missing, mode |-> Missing]

\* an item given to pack_iter_neo as a tuple (name, is_dir, data)
TupleItem(name, is_dir, data) ==
    [kind |-> "tuple", name |-> name, is_dir |-> is_dir, data |-> data,
     mtime |-> Missing, mode |-> Missing]

BadItem ==
    [kind |-> "bad", name |-> <<>>, is_dir |-> FALSE, data |-> None,
     mtime |-> Missing, mode |-> Missing]

\* the file "a" with each content, an item that is no item, the directory
\* "d/", the file "d/b", and the file "t" given as a tuple
ItemPool(d) ==
    <<FileItem(<<97>>, Contents(d)[1]), FileItem(<<97>>, Contents(d)[2]),
      FileItem(<<97>>, Contents(d)[3]), BadItem, FileItem(<<100, 47>>, None),
      FileItem(<<100, 47, 98>>, Contents(d)[2]),
      TupleItem(<<116>>, FALSE, Contents(d)[2])>>

\* items that say their own time and mode: a mapping with the keys mtime
\* and mode, and a tuple (name, is_dir, data, mtime, mode)
TimedItems ==
    {[kind |-> k, name |-> <<109>>, is_dir |-> FALSE, data |-> <<104, 105>>,
      mtime |-> 5, mode |-> S_IFREG + 384] : k \in {"dict", "tuple"}}

UniqueNames(s) ==
    \A i, j \in 1..Len(s) :
        (i # j /\ s[i].kind # "bad" /\ s[j].kind # "bad") => NormName(s[i].name) # NormName(s[j].name)

\* the members of pool at the indices in S, in the pool's order
RECURSIVE Pick(_, _)
Pick(pool, S) ==
    IF S = {} THEN <<>>
    ELSE LET m == CHOOSE i \in S : \A j \in S : i <= j
         IN  <<pool[m]>> \o Pick(pool, S \ {m})

\* the item lists of at most n items with distinct names
ItemListsUpTo(d, n) ==
    {s \in {Pick(ItemPool(d), S) : S \in {T \in SUBSET (1..Len(ItemPool(d))) : Cardinality(T) <= n}} :
        UniqueNames(s)}

ItemLists(d) == ItemListsUpTo(d, MaxItems)

\* one file whose normalised name fills a read chunk but for one byte
LongItems == {<<FileItem([i \in 1..LongName |-> 110], <<104, 105>>)>>}

\* Archives given to repack_neo: records as _build_record writes them for
\* entries that carry JSON side-data, owners, times, a link target and link
\* and device numbers; the second entry is stored zlib-compressed at level 9.
RepackTargets == {"auto", "none", "zlib", "z", "lzma"}

EntryMeta(name, ftype, size, algo, csize, n) ==
    [ftype |-> ftype, fencoding |-> Str("UTF-8"), fcencoding |-> Str("UTF-8"),
     fname |-> name, flinkname |-> IF ftype = 2 THEN <<97>> ELSE <<>>, fsize |-> size,
     fatime |-> 1 + n, fmtime |-> 2 + n, fctime |-> 3 + n, fbtime |-> 4 + n,
     fmode |-> S_IFREG + MODE_FILE_DEFAULT, fwinattributes |-> 0, fcompression |-> algo,
     fcsize |-> csize, fuid |-> 1000 * n, funame |-> IF n = 0 THEN <<>> ELSE <<117>>,
     fgid |-> 100 * n, fgname |-> IF n = 0 THEN <<>> ELSE <<103>>, fid |-> 7 * n,
     finode |-> 9 * n, flinkcount |-> 1 + n, fdev |-> 5 * n, fdev_minor |-> n,
     fdev_major |-> 8 * n]

EntryPool ==
    <<[meta |-> EntryMeta(<<46, 47, 97>>, 0, 2, Str("none"), 2, 1),
       json |-> <<[k |-> 107, v |-> 1]>>, stored |-> <<104, 105>>],
      [meta |-> EntryMeta(<<46, 47, 122>>, 0, 2, Str("zlib"),
                          Len(Deflate(<<104, 105>>, Str("zlib"), 9)), 0),
       json |-> <<>>, stored |-> Deflate(<<104, 105>>, Str("zlib"), 9)],
      [meta |-> EntryMeta(<<46, 47, 108>>, 2, 0, Str("none"), 0, 1),
       json |-> <<>>, stored |-> <<>>]>>

\* an entry another host stored with lzma
LzmaEntry ==
    [meta |-> EntryMeta(<<46, 47, 120>>, 0, 2, Str("lzma"),
                        Len(Deflate(<<104, 105>>, Str("lzma"), 6)), 0),
     json |-> <<>>, stored |-> Deflate(<<104, 105>>, Str("lzma"), 6)]

RECURSIVE Records(_, _)
Records(f, es) ==
    IF es = <<>> THEN <<>>
    ELSE Records(f, SubSeq(es, 1, Len(es) - 1))
         \o _build_record(f, es[Len(es)].meta, es[Len(es)].json, es[Len(es)].stored,
                          <<Str("crc32"), Str("crc32"), Str("crc32")>>).out

InputArchive(f, es) ==
    _write_global_header(f, Len(es), Str("UTF-8"), Str("crc32")).out
    \o Records(f, es) \o EndMarker(f.format_delimiter)

RepackInputs(f) ==
    {InputArchive(f, Pick(EntryPool, S)) :
        S \in {T \in SUBSET (1..Len(EntryPool)) : Cardinality(T) \in 1..MaxItems}}

Compressions == {"none", "zlib", "gzip", "bz2", "lzma", "auto"}

\* compression arguments with a name no codec has and with levels a codec
\* refuses: 0 (bz2), 10 (all), and -1 (bz2, lzma)
Choices ==
    {[name |-> c, level |-> l] : c \in Compressions \cup {"bogus"}, l \in {-1, 0, 10}}
        \cup {[name |-> "bogus", level |-> LevelNone]}

NoTamper == [kind |-> "none", entry |-> 0, at |-> 0]

-----------------------------------------------------------------------------
(* pack_iter_neo (pack_neo with a mapping builds the item list and calls   *)
(* it), one step per write to the output sink.                             *)

Init ==
    /\ \/ /\ fs \in FormatSpecs
          /\ items \in ItemLists(fs.format_delimiter) \cup LongItems
          /\ compression = [name |-> "none", level |-> LevelNone]
          /\ outmode = "buffer"
          /\ infile = None
       \/ /\ fs = _default_formatspecs
          /\ items \in ItemListsUpTo(fs.format_delimiter, 1)
          /\ compression \in {[name |-> c, level |-> LevelNone] : c \in Compressions \ {"none"}}
          /\ outmode = "buffer"
          /\ infile = None
       \/ /\ fs = _default_formatspecs
          /\ items \in ItemLists(fs.format_delimiter)
          /\ compression = [name |-> "none", level |-> LevelNone]
          /\ outmode = "path"
          /\ infile = None
       \/ /\ fs = _default_formatspecs
          /\ items = <<FileItem(<<97>>, <<104, 105>>)>>
          /\ compression \in Choices
          /\ outmode = "buffer"
          /\ infile = None
       \/ /\ fs = _default_formatspecs
          /\ items \in {<<it>> : it \in TimedItems}
          /\ compression = [name |-> "none", level |-> LevelNone]
          /\ outmode = "buffer"
          /\ infile = None
       \/ /\ fs = _default_formatspecs
          /\ items = <<>>
          /\ compression \in {[name |-> c, level |-> LevelNone] : c \in RepackTargets}
          /\ outmode \in {"buffer", "path"}
          /\ infile \in RepackInputs(fs)
       \/ /\ fs = _default_formatspecs
          /\ items = <<>>
          /\ compression \in {[name |-> c, level |-> LevelNone] : c \in {"lzma", "zlib"}}
          /\ outmode = "buffer"
          /\ infile = InputArchive(fs, <<LzmaEntry>>)
    /\ cstype = "crc32"
    /\ outmode \in {"buffer", "path"}
    /\ env \in {[have_lzma |-> h, now |-> 1000] :
                  h \in IF compression.name = "lzma" THEN BOOLEAN ELSE {TRUE}}
    /\ pc = "idle"
    /\ idx = 0
    /\ written = <<>>
    /\ disk = <<>>
    /\ open_files = {}
    /\ archive = <<>>
    /\ result = NoResult
    /\ tamper = NoTamper

Checksumtypes == <<Str(cstype), Str(cstype), Str(cstype)>>

\* lines 637-646: resolve the format, open the output, write the header
PackOpen ==
    /\ pc = "idle"
    /\ infile = None
    /\ LET h == _write_global_header(fs, Len(items), Str("UTF-8"), Checksumtypes[1])
       IN  /\ pc' = IF h.err = "" THEN "loop" ELSE "raised"
           /\ written' = IF h.err = "" THEN h.out ELSE <<>>
    /\ open_files' = IF outmode = "path" THEN open_files \cup {"out"} ELSE open_files
    /\ disk' = <<>>
    /\ idx' = 0
    /\ UNCHANGED <<fs, items, compression, cstype, outmode, archive, result, env, tamper, infile>>

\* a turn of the loop that writes no record
PackItemSkip ==
    /\ pc = "loop"
    /\ idx < Len(items)
    /\ idx' = idx + 1
    /\ UNCHANGED <<fs, items, compression, cstype, outmode, pc, written, disk, open_files,
                   archive, result, env, tamper, infile>>

\* lines 649-696: one turn of the loop
PackItem ==
    /\ pc = "loop"
    /\ idx < Len(items)
    /\ LET r == PackItemRecord(fs, items[idx + 1], idx, Str(compression.name),
                               compression.level, Checksumtypes, Str("UTF-8"), env)
       IN  /\ pc' = IF r.err = "" THEN "loop" ELSE "raised"
           /\ written' = IF r.err = "" THEN written \o r.out ELSE written
           /\ idx' = IF r.err = "" THEN idx + 1 ELSE idx
    /\ UNCHANGED <<fs, items, compression, cstype, outmode, disk, open_files, archive,
                   result, env, tamper, infile>>

\* lines 698-701: the end marker, and the return
PackClose ==
    /\ pc = "loop"
    /\ idx = Len(items)
    /\ written' = written \o EndMarker(fs.format_delimiter)
    /\ pc' = "returned"
    /\ UNCHANGED <<fs, items, compression, cstype, outmode, idx, disk, open_files, archive,
                   result, env, tamper, infile>>

-----------------------------------------------------------------------------
(* repack_neo, one step per write to the output sink.                      *)

\* ent.get(key, default) on an entry _parse_record returned
EntGet(ent, key, default) == IF key \in DOMAIN ent THEN ent[key] ELSE default

\* lines 867-911, one entry: [err, out]
RepackItemRecord(f, ent, out_count, comp, level, checksumtypes, encoding, e) ==
    LET src_algo == Lower(IF ent.fcompression = <<>> THEN Str("none") ELSE ent.fcompression)
        stored_src == IF ent.fcontent = None THEN <<>> ELSE ent.fcontent
        Built(c, raw_len) ==
            IF c.err # "" THEN [err |-> c.err, out |-> <<>>]
            ELSE _build_record(f,
                     [ftype |-> ent.ftype, fencoding |-> encoding, fcencoding |-> encoding,
                      fname |-> ent.fname, flinkname |-> EntGet(ent, "flinkname", <<>>),
                      fsize |-> raw_len, fatime |-> EntGet(ent, "fatime", e.now),
                      fmtime |-> EntGet(ent, "fmtime", e.now),
                      fctime |-> EntGet(ent, "fctime", e.now),
                      fbtime |-> EntGet(ent, "fbtime", e.now),
                      fmode |-> EntGet(ent, "fmode", S_IFREG + MODE_FILE_DEFAULT),
                      fwinattributes |-> EntGet(ent, "fwinattributes", 0),
                      fcompression |-> c.algo, fcsize |-> Len(c.stored),
                      fuid |-> EntGet(ent, "fuid", 0), funame |-> EntGet(ent, "funame", <<>>),
                      fgid |-> EntGet(ent, "fgid", 0), fgname |-> EntGet(ent, "fgname", <<>>),
                      fid |-> EntGet(ent, "fid", out_count),
                      finode |-> EntGet(ent, "finode", out_count),
                      flinkcount |-> EntGet(ent, "flinkcount", 1),
                      fdev |-> EntGet(ent, "fdev", 0),
                      fdev_minor |-> EntGet(ent, "fdev_minor", 0),
                      fdev_major |-> EntGet(ent, "fdev_major", 0)],
                     EntGet(ent, "fjson", <<>>), c.stored, checksumtypes)
        Picked(raw, dec, dst_algo, dst_level) ==
            IF dst_algo = src_algo
            THEN Built([err |-> "", stored |-> stored_src, algo |-> src_algo],
                       IF src_algo # Str("none") /\ dec.err = "" THEN Len(dec.data)
                       ELSE Len(stored_src))
            ELSE Built(_compress_bytes(raw, dst_algo, dst_level, e.have_lzma), Len(raw))
        Target(raw, dec, algo0) ==
            Picked(raw, dec,
                   IF algo0 = Str("auto") THEN _auto_pick_for_size(Len(raw)).algo ELSE algo0,
                   IF algo0 = Str("auto") THEN _auto_pick_for_size(Len(raw)).level ELSE level)
        Raw(dec) ==
            Target(IF src_algo # Str("none") /\ dec.err = "" THEN dec.data ELSE stored_src,
                   dec, Lower(IF comp = <<>> THEN Str("auto") ELSE comp))
    IN  Raw(_decompress_bytes(stored_src, src_algo, e.have_lzma))

\* what line 855 reads of the input
RepackArray == archive_to_array_neo(infile, fs, FALSE, FALSE, FALSE, TRUE, env.have_lzma)

\* lines 855-863: read the input, open the output, write the header
RepackOpen ==
    /\ pc = "idle"
    /\ infile # None
    /\ LET Opened(arr, h) ==
               /\ pc' = IF arr.err = "" /\ h.err = "" THEN "repack" ELSE "raised"
               /\ written' = IF arr.err = "" /\ h.err = "" THEN h.out ELSE <<>>
               /\ open_files' = IF arr.err = "" /\ outmode = "path"
                                THEN open_files \cup {"out"} ELSE open_files
           Parsed(arr) ==
               Opened(arr, _write_global_header(fs, Len(arr.entries),
                                                _parse_global_header(infile, fs).fencoding,
                                                Checksumtypes[1]))
       IN  Parsed(RepackArray)
    /\ disk' = <<>>
    /\ idx' = 0
    /\ UNCHANGED <<fs, items, compression, cstype, outmode, archive, result, env, tamper,
                   infile>>

\* lines 866-912: one turn of the loop
RepackItem ==
    /\ pc = "repack"
    /\ LET Wrote(r) ==
               /\ pc' = IF r.err = "" THEN "repack" ELSE "raised"
               /\ written' = IF r.err = "" THEN written \o r.out ELSE written
               /\ idx' = IF r.err = "" THEN idx + 1 ELSE idx
           Turn(arr) ==
               /\ idx < Len(arr.entries)
               /\ Wrote(RepackItemRecord(fs, arr.entries[idx + 1], idx,
                                         Str(compression.name), compression.level,
                                         Checksumtypes,
                                         _parse_global_header(infile, fs).fencoding, env))
       IN  Turn(RepackArray)
    /\ UNCHANGED <<fs, items, compression, cstype, outmode, disk, open_files, archive,
                   result, env, tamper, infile>>

\* lines 914-917: the end marker, and the return
RepackClose ==
    /\ pc = "repack"
    /\ idx = Len(RepackArray.entries)
    /\ written' = written \o EndMarker(fs.format_delimiter)
    /\ pc' = "returned"
    /\ UNCHANGED <<fs, items, compression, cstype, outmode, idx, disk, open_files, archive,
                   result, env, tamper, infile>>

\* the process is stopped between two writes
Interrupt ==
    /\ pc \in {"loop", "repack"}
    /\ outmode = "path"
    /\ pc' = "killed"
    /\ UNCHANGED <<fs, items, compression, cstype, outmode, idx, written, disk, open_files,
                   archive, result, env, tamper, infile>>

\* make_empty_file_neo (lines 999-1022) with a complete format
\* (_select_formatspecs_neo returns it as it is): the global header for no
\* entries and the end marker; a file is flushed and left open.
MakeEmpty ==
    /\ pc = "idle"
    /\ infile = None
    /\ items = <<>>
    /\ LET h == _write_global_header(fs, 0, Str("UTF-8"), Str(cstype))
           Made(out) ==
               /\ written' = out
               /\ disk' = IF outmode = "path" THEN out ELSE disk
       IN  /\ pc' = IF h.err = "" THEN "made" ELSE "raised"
           /\ Made(IF h.err = "" THEN h.out \o _append_nulls(<<Str("0"), Str("0")>>,
                                                             fs.format_delimiter)
                   ELSE <<>>)
    /\ open_files' = IF outmode = "path" THEN open_files \cup {"out"} ELSE open_files
    /\ UNCHANGED <<fs, items, compression, cstype, outmode, idx, archive, result, env,
                   tamper, infile>>

\* The output file object is never closed by the writer (_open_out, line
\* 264, has no matching close): it is closed when the collector finalises
\* it, and what it buffered is written out first or lost with it.
Finalize ==
    /\ pc \in {"returned", "made", "raised", "killed"}
    /\ "out" \in open_files
    /\ \E flushed \in BOOLEAN : disk' = IF flushed THEN written ELSE disk
    /\ open_files' = open_files \ {"out"}
    /\ UNCHANGED <<fs, items, compression, cstype, outmode, pc, idx, written, archive,
                   result, env, tamper, infile>>

\* what a reader of the writer's output is given: the bytes returned, or
\* the file
CanRead ==
    /\ result = NoResult
    /\ IF outmode = "buffer" THEN pc \in {"returned", "made"}
       ELSE pc \in {"returned", "made", "raised", "killed"}

Output == IF outmode = "buffer" THEN written ELSE disk

\* what the reader is given: the writer's output, or the archive made of it
Input == IF tamper.kind = "none" THEN Output ELSE archive

ReadArray ==
    /\ CanRead
    /\ archive' = Input
    /\ result' = archive_to_array_neo(Input, fs, FALSE, FALSE, TRUE, FALSE, env.have_lzma)
    /\ UNCHANGED <<fs, items, compression, cstype, outmode, pc, idx, written, disk,
                   open_files, env, tamper, infile>>

\* with include_dirs true (op "list") or false (op "list_nodirs")
ReadList ==
    /\ CanRead
    /\ archive' = Input
    /\ \E include_dirs \in BOOLEAN :
         LET Listed(r) == IF include_dirs THEN r ELSE [r EXCEPT !.op = "list_nodirs"]
         IN  result' = Listed(archivefilelistfiles_neo(Input, fs, include_dirs, TRUE,
                                                       env.have_lzma))
    /\ UNCHANGED <<fs, items, compression, cstype, outmode, pc, idx, written, disk,
                   open_files, env, tamper, infile>>

ReadValidate ==
    /\ CanRead
    /\ archive' = Input
    /\ result' = archivefilevalidate_neo(Input, fs, FALSE, env.have_lzma)
    /\ UNCHANGED <<fs, items, compression, cstype, outmode, pc, idx, written, disk,
                   open_files, env, tamper, infile>>

ReadUnpack ==
    /\ CanRead
    /\ archive' = Input
    /\ result' = unpack_neo(Input, fs, FALSE, TRUE, env.have_lzma)
    /\ UNCHANGED <<fs, items, compression, cstype, outmode, pc, idx, written, disk,
                   open_files, env, tamper, infile>>

Next ==
    \/ PackOpen
    \/ PackItem
    \/ PackClose
    \/ RepackOpen
    \/ RepackItem
    \/ RepackClose
    \/ MakeEmpty
    \/ Interrupt
    \/ Finalize
    \/ ReadArray
    \/ ReadList
    \/ ReadValidate
    \/ ReadUnpack

Spec == Init /\ [][Next]_vars

-----------------------------------------------------------------------------
(* Archives that differ from what the writer returned: a byte of an        *)
(* entry's stored content, of a header digest or of the magic changed, the *)
(* last bytes cut off, the count of the global header rewritten.  The      *)
(* readers are then given the changed archive.                             *)

MaxCut == 3
Deltas == {1, 128}

Poke(data, i, b) == [data EXCEPT ![i] = b]

\* the offset at which record e starts, counting records from the one at pos
RECURSIVE RecordStartOf(_, _, _, _)
RecordStartOf(data, f, pos, e) ==
    IF e = 1 THEN pos
    ELSE RecordStartOf(data, f, _parse_record(data, pos, f, TRUE, TRUE, FALSE, TRUE, TRUE).pos,
                       e - 1)

\* the stored bytes of an item's content
StoredOf(it) ==
    PackCompress(IF it.is_dir \/ EndsWith(NormName(it.name), Str("/")) \/ it.data = None
                 THEN <<>> ELSE it.data,
                 Str(compression.name), compression.level, env.have_lzma).stored

OtherHexDigit(c) == IF c = 48 THEN 49 ELSE 48

Tamperable ==
    /\ pc = "returned"
    /\ outmode = "buffer"
    /\ tamper = NoTamper
    /\ result = NoResult

CorruptContent ==
    /\ Tamperable
    /\ \E e \in 1..Len(items), k \in 1..4, delta \in Deltas :
        LET At(n, end) == end - Len(fs.format_delimiter) - n + k
            Changed(i) == Poke(written, i, (written[i] + delta) % 256)
        IN  /\ k <= Len(StoredOf(items[e]))
            /\ archive' = Changed(At(Len(StoredOf(items[e])),
                                     RecordStartOf(written, fs,
                                                   _parse_global_header(written, fs).pos,
                                                   e + 1)))
            /\ tamper' = [kind |-> "content", entry |-> e, at |-> k]
    /\ UNCHANGED <<fs, items, compression, cstype, outmode, pc, idx, written, disk,
                   open_files, result, env, infile>>

\* a digit of the header digest stored in record e
CorruptHeaderDigest ==
    /\ Tamperable
    /\ \E e \in 1..Len(items), k \in {1, 8} :
        LET Changed(h) == Poke(written, h.pos - Len(fs.format_delimiter) - Len(h.vals[37]) + k,
                               OtherHexDigit(h.vals[37][k]))
            Fields(start) == _read_fields(written, start, 37, fs.format_delimiter)
            At(start) == IF k <= Len(Fields(start).vals[37]) THEN Changed(Fields(start))
                         ELSE written
        IN  /\ archive' = At(RecordStartOf(written, fs, _parse_global_header(written, fs).pos, e))
            /\ archive' # written
            /\ tamper' = [kind |-> "hdigest", entry |-> e, at |-> k]
    /\ UNCHANGED <<fs, items, compression, cstype, outmode, pc, idx, written, disk,
                   open_files, result, env, infile>>

\* a digit of the checksum of the global header
CorruptGlobalDigest ==
    /\ Tamperable
    /\ \E k \in {1, 8} :
        LET Changed(h) == Poke(written, h.pos - Len(fs.format_delimiter) - Len(h.vals[10]) + k,
                               OtherHexDigit(h.vals[10][k]))
            At(h) == IF k <= Len(h.vals[10]) THEN Changed(h) ELSE written
        IN  /\ archive' = At(_read_fields(written, 0, 10, fs.format_delimiter))
            /\ archive' # written
            /\ tamper' = [kind |-> "gdigest", entry |-> 0, at |-> k]
    /\ UNCHANGED <<fs, items, compression, cstype, outmode, pc, idx, written, disk,
                   open_files, result, env, infile>>

\* a byte of the magic, or a digit of the version after it
CorruptMagic ==
    /\ Tamperable
    /\ \E k \in {1, Len(fs.format_magic) + 1} :
        /\ archive' = Poke(written, k, IF k = 1 THEN 88 ELSE 57)
        /\ tamper' = [kind |-> "magic", entry |-> 0, at |-> k]
    /\ UNCHANGED <<fs, items, compression, cstype, outmode, pc, idx, written, disk,
                   open_files, result, env, infile>>

\* the last k bytes cut off
Truncate ==
    /\ Tamperable
    /\ \E k \in 1..MaxCut :
        /\ archive' = SubSeq(written, 1, Len(written) - k)
        /\ tamper' = [kind |-> "truncate", entry |-> 0, at |-> k]
    /\ UNCHANGED <<fs, items, compression, cstype, outmode, pc, idx, written, disk,
                   open_files, result, env, infile>>

\* the global header written again with another count of entries
RewriteCount ==
    /\ Tamperable
    /\ \E c \in 0..(Len(items) + 1) :
        /\ c # Len(items)
        /\ archive' = _write_global_header(fs, c, Str("UTF-8"), Checksumtypes[1]).out
                      \o SubSeq(written, _parse_global_header(written, fs).pos + 1, Len(written))
        /\ tamper' = [kind |-> "count", entry |-> 0, at |-> c]
    /\ UNCHANGED <<fs, items, compression, cstype, outmode, pc, idx, written, disk,
                   open_files, result, env, infile>>

\* item lists the writer accepts
TamperItems(d) == {s \in ItemLists(d) : \A i \in 1..Len(s) : s[i].kind = "dict"}

InitTamper ==
    /\ fs \in FormatSpecs
    /\ items \in TamperItems(fs.format_delimiter)
    /\ compression \in {[name |-> c, level |-> LevelNone] :
                          c \in IF fs = _default_formatspecs /\ Len(items) = 1
                                THEN {"none", "zlib"} ELSE {"none"}}
    /\ cstype \in {"crc32", "none"}
    /\ outmode = "buffer"
    /\ infile = None
    /\ env = [have_lzma |-> TRUE, now |-> 1000]
    /\ pc = "idle"
    /\ idx = 0
    /\ written = <<>>
    /\ disk = <<>>
    /\ open_files = {}
    /\ archive = <<>>
    /\ result = NoResult
    /\ tamper = NoTamper

NextTamper ==
    \/ PackOpen
    \/ PackItem
    \/ PackClose
    \/ CorruptContent
    \/ CorruptHeaderDigest
    \/ CorruptGlobalDigest
    \/ CorruptMagic
    \/ Truncate
    \/ RewriteCount
    \/ ReadArray
    \/ ReadList
    \/ ReadValidate
    \/ ReadUnpack

SpecTamper == InitTamper /\ [][NextTamper]_vars

-----------------------------------------------------------------------------
(* The compression step of pack_iter_neo on contents of any length.  The   *)
(* state holds the length of the content; the step compresses that many    *)
(* zero bytes as lines 673-683 do and keeps what the record then says of   *)
(* the result: the name, the two sizes, the level the codec was run at and *)
(* whether the stored bytes decompress to the content.                     *)

AutoSizes ==
    {0, 1, 2, 8192, 16382, 16383, 16384, 16385, 100000, 131072,
     262142, 262143, 262144, 262145, 300000}

InitAuto ==
    /\ fs = _default_formatspecs
    /\ items \in {<<[kind |-> "sized", n |-> n]>> : n \in AutoSizes}
    /\ compression \in {[name |-> "auto", level |-> l] : l \in {LevelNone, 1, 6, 9}}
    /\ outmode = "buffer"
    /\ infile = None
    /\ cstype = "crc32"
    /\ env = [have_lzma |-> TRUE, now |-> 1000]
    /\ pc = "idle"
    /\ idx = 0
    /\ written = <<>>
    /\ disk = <<>>
    /\ open_files = {}
    /\ archive = <<>>
    /\ result = NoResult
    /\ tamper = NoTamper

\* lines 673-683 and the sizes of lines 685-693, on n zero bytes
AutoCompress ==
    /\ pc = "idle"
    /\ LET \* the level byte of the stored form
           LevelOf(c) ==
               IF c.err # "" \/ c.algo = Str("none") THEN LevelNone
               ELSE c.stored[Len(CodecMagic(c.algo)) + 1]
           Compressed(raw, c) ==
               [op |-> "compress", err |-> c.err, algo |-> c.algo, fsize |-> Len(raw),
                fcsize |-> Len(c.stored), level |-> LevelOf(c),
                back |-> /\ c.err = ""
                         /\ _decompress_bytes(c.stored, c.algo, env.have_lzma).data = raw]
           Go(raw) ==
               Compressed(raw, PackCompress(raw, Str(compression.name), compression.level,
                                            env.have_lzma))
       IN  result' = Go([i \in 1..items[1].n |-> 0])
    /\ pc' = "compressed"
    /\ UNCHANGED <<fs, items, compression, cstype, outmode, idx, written, disk, open_files,
                   archive, env, tamper, infile>>

SpecAuto == InitAuto /\ [][AutoCompress]_vars

-----------------------------------------------------------------------------
(* Format-spec resolution on a host with INI files.  fs holds the          *)
(* formatspecs argument, env the host; the step is _ensure_formatspecs.    *)

\* INI files: a default that names a section without magic, after another
\* section; a default that names no section of the file; a file with
\* nothing but [config]; one section that defines all four parameters; a
\* file the parser refuses
IniPool ==
    <<[bad |-> FALSE,
       sections |-> <<[name |-> Str("config"), opts |-> [default |-> <<110, 101, 111>>]],
                      [name |-> <<111, 116, 104, 101, 114>>, opts |-> [magic |-> <<79, 116, 104>>]],
                      [name |-> <<110, 101, 111>>,
                       opts |-> [ver |-> <<118, 49, 46, 50>>, delimiter |-> <<92, 120, 48, 49>>]]>>],
      [bad |-> FALSE,
       sections |-> <<[name |-> Str("config"),
                       opts |-> [default |-> <<109, 105, 115, 115, 105, 110, 103>>]],
                      [name |-> <<102, 105, 114, 115, 116>>,
                       opts |-> [magic |-> <<70, 105, 114, 115, 116>>, ver |-> <<97, 98, 99>>,
                                 newstyle |-> <<110, 111>>]]>>],
      [bad |-> FALSE,
       sections |-> <<[name |-> Str("config"), opts |-> [default |-> <<120>>]]>>],
      [bad |-> FALSE,
       sections |-> <<[name |-> <<102, 117, 108, 108>>,
                       opts |-> [magic |-> <<77>>, ver |-> <<48, 48, 50>>,
                                 delimiter |-> <<92, 120, 102, 102>>,
                                 newstyle |-> <<89, 101, 115>>]]>>],
      [bad |-> TRUE, sections |-> <<>>]>>

InitIni ==
    /\ fs \in {<<>>, [format_delimiter |-> <<1>>], [format_ver |-> <<118, 49, 46, 50>>]}
    /\ env \in {[have_lzma |-> TRUE, now |-> 1000, PYNEOFILE_INI |-> a, PYARCHIVE_INI |-> b,
                  files |-> f] :
                    a \in {"", "p.ini", "q.ini"}, b \in {"", "p.ini", "q.ini"},
                    f \in UNION {[D -> {IniPool[i] : i \in 1..Len(IniPool)}] :
                                   D \in {E \in SUBSET {"p.ini", "q.ini", "neofile.ini"} :
                                            Cardinality(E) <= 2}}}
    /\ items = <<>>
    /\ compression = [name |-> "none", level |-> LevelNone]
    /\ outmode = "buffer"
    /\ infile = None
    /\ cstype = "crc32"
    /\ pc = "idle"
    /\ idx = 0
    /\ written = <<>>
    /\ disk = <<>>
    /\ open_files = {}
    /\ archive = <<>>
    /\ result = NoResult
    /\ tamper = NoTamper

\* lines 238-244
Resolve ==
    /\ pc = "idle"
    /\ LET Done(r) ==
               /\ result' = [op |-> "formatspecs", err |-> r.err, fs |-> r.fs]
               /\ pc' = IF r.err = "" THEN "resolved" ELSE "raised"
       IN  Done(_ensure_formatspecs(fs, env))
    /\ UNCHANGED <<fs, items, compression, cstype, outmode, idx, written, disk, open_files,
                   archive, env, tamper, infile>>

SpecIni == InitIni /\ [][Resolve]_vars

-----------------------------------------------------------------------------
(* convert_foreign_to_neo.  infile holds the path of the foreign archive;  *)
(* the members of a zip or tar file are a file "a" and a directory "d/".   *)
(* The call is one step: the test of the extension, the reading of the     *)
(* members, and the whole of pack_iter_neo on them.                        *)

\* a test of the extension that takes every name with a dot for a tar file
ForeignKindAny(lp) ==
    IF EndsWith(lp, <<46, 122, 105, 112>>) THEN "zip"
    ELSE IF \E i \in 1..Len(lp) : lp[i] = 46 THEN "tar"
    ELSE ""

\* lines 929 and 941, on the lower-cased path
ForeignKind(lp) ==
    IF EndsWith(lp, <<46, 122, 105, 112>>) THEN "zip"
    ELSE IF \/ EndsWith(lp, <<46, 116, 97, 114>>)
            \/ \E ext \in {<<46, 116, 97, 114, 46, 103, 122>>, <<46, 116, 103, 122>>,
                             <<46, 116, 97, 114, 46, 98, 122, 50>>, <<46, 116, 98, 122, 50>>,
                             <<46, 116, 97, 114, 46, 120, 122>>, <<46, 116, 120, 122>>} :
                 EndsWith(lp, ext)
    THEN "tar"
    ELSE ""

\* lines 637-701 in one piece: [err, out], out what was written
pack_iter_neo(its, f, comp, level, checksumtypes, encoding, e) ==
    LET RECURSIVE Loop(_, _)
        Loop(fid, out) ==
            LET Wrote(r) == IF r.err # "" THEN [err |-> r.err, out |-> out]
                            ELSE Loop(fid + 1, out \o r.out)
            IN  IF fid = Len(its)
                THEN [err |-> "", out |-> out \o EndMarker(f.format_delimiter)]
                ELSE Wrote(PackItemRecord(f, its[fid + 1], fid, comp, level, checksumtypes,
                                          encoding, e))
        Opened(h) == IF h.err # "" THEN [err |-> h.err, out |-> <<>>] ELSE Loop(0, h.out)
    IN  Opened(_write_global_header(f, Len(its), encoding, checksumtypes[1]))

\* what was in the output file before the call
OldFile == <<111, 108, 100>>

\* a.zip A.ZIP a.tar a.tar.gz a.tgz a.tar.bz2 a.tbz2 a.tar.xz a.txz, and
\* a.rar a.7z a zip a.zip.bak a.tar.lz a.gz
InitConvert ==
    /\ infile \in {<<97, 46, 122, 105, 112>>, <<65, 46, 90, 73, 80>>, <<97, 46, 116, 97, 114>>,
                   <<97, 46, 116, 97, 114, 46, 103, 122>>, <<97, 46, 116, 103, 122>>,
                   <<97, 46, 116, 97, 114, 46, 98, 122, 50>>, <<97, 46, 116, 98, 122, 50>>,
                   <<97, 46, 116, 97, 114, 46, 120, 122>>, <<97, 46, 116, 120, 122>>,
                   <<97, 46, 114, 97, 114>>, <<97, 46, 55, 122>>, <<97>>, <<122, 105, 112>>,
                   <<97, 46, 122, 105, 112, 46, 98, 97, 107>>,
                   <<97, 46, 116, 97, 114, 46, 108, 122>>, <<97, 46, 103, 122>>}
    /\ outmode \in {"buffer", "path"}
    /\ disk = IF outmode = "path" THEN OldFile ELSE <<>>
    /\ fs = _default_formatspecs
    /\ items = <<>>
    /\ compression = [name |-> "none", level |-> LevelNone]
    /\ cstype = "crc32"
    /\ env = [have_lzma |-> TRUE, now |-> 1000]
    /\ pc = "idle"
    /\ idx = 0
    /\ written = <<>>
    /\ open_files = {}
    /\ archive = <<>>
    /\ result = NoResult
    /\ tamper = NoTamper

\* lines 925-953
Convert ==
    /\ pc = "idle"
    /\ LET members == <<FileItem(<<97>>, <<104, 105>>), FileItem(<<100, 47>>, None)>>
           Packed(r) ==
               /\ items' = members
               /\ pc' = IF r.err = "" THEN "returned" ELSE "raised"
               /\ written' = r.out
               /\ disk' = IF outmode = "path" THEN <<>> ELSE disk
               /\ open_files' = IF outmode = "path" THEN open_files \cup {"out"}
                                ELSE open_files
               /\ result' = result
       IN  IF ForeignKind(Lower(infile)) \in {"zip", "tar"}
           THEN Packed(pack_iter_neo(members, fs, Str(compression.name), compression.level,
                                     Checksumtypes, Str("UTF-8"), env))
           ELSE /\ pc' = "raised"
                /\ result' = [NoResult EXCEPT !.op = "convert",
                                              !.err = "Unsupported foreign archive"]
                /\ UNCHANGED <<items, written, disk, open_files>>
    /\ idx' = Len(items')
    /\ UNCHANGED <<fs, compression, cstype, outmode, archive, env, tamper, infile>>

NextConvert ==
    \/ Convert
    \/ Finalize
    \/ ReadArray
    \/ ReadList
    \/ ReadValidate
    \/ ReadUnpack

SpecConvert == InitConvert /\ [][NextConvert]_vars

-----------------------------------------------------------------------------
(* _read_cstring on its own.  archive holds the stream, idx the cursor at  *)
(* the start of a field that the delimiter follows, env.chunk the size of  *)
(* a read (4096 in the program; the fields that span more than one read    *)
(* are then longer than 4096 bytes, and short fields meet the same loop    *)
(* with reads of 2, 3 and 4 bytes).                                        *)

InitCString ==
    /\ fs \in {[_default_formatspecs EXCEPT !.format_delimiter = d] :
                 d \in {<<0>>, <<0, 255>>, <<0, 255, 0>>}}
    /\ env \in {[have_lzma |-> TRUE, now |-> 1000, chunk |-> c] : c \in {2, 3, 4, CHUNK}}
    /\ idx \in {0, 1}
    /\ archive \in {[i \in 1..idx |-> 120] \o field \o fs.format_delimiter \o suffix :
                      field \in {[i \in 1..n |-> 110] :
                                   n \in IF env.chunk = CHUNK
                                         THEN {5, CHUNK - 2, CHUNK - 1, CHUNK, 5000}
                                         ELSE {0, 1, 2, 3, 4, 5, 7}}
                                \cup {<<110, 0>>, <<255, 110>>},
                      suffix \in {<<>>, <<121, 121>>}}
    /\ items = <<>>
    /\ compression = [name |-> "none", level |-> LevelNone]
    /\ outmode = "buffer"
    /\ infile = None
    /\ cstype = "crc32"
    /\ pc = "idle"
    /\ written = <<>>
    /\ disk = <<>>
    /\ open_files = {}
    /\ result = NoResult
    /\ tamper = NoTamper

\* lines 277-314
ReadField ==
    /\ pc = "idle"
    /\ LET Got(r) ==
               /\ result' = [op |-> "cstring", err |-> IF r.hang THEN "hang" ELSE "",
                             out |-> r.out, pos |-> r.pos]
               /\ pc' = IF r.hang THEN "hung" ELSE "read"
       IN  Got(IF Len(fs.format_delimiter) = 1
               THEN ReadCString1(archive, idx, fs.format_delimiter, env.chunk, <<>>)
               ELSE ReadCStringN(archive, idx, fs.format_delimiter, env.chunk, <<>>,
                                 {<<idx, <<>>>>}))
    /\ UNCHANGED <<fs, items, compression, cstype, outmode, idx, written, disk, open_files,
                   archive, env, tamper, infile>>

SpecCString == InitCString /\ [][ReadField]_vars

-----------------------------------------------------------------------------
(* One record from another writer, read by archive_to_array_neo.  The      *)
(* reader takes the JSON preamble in two layouts (lines 403-417): the six  *)
(* fields type, logical length, byte size, digest type, digest, or the     *)
(* five without the logical length.  env tells what was written: the       *)
(* layout (six), the count of extra fields (extras), the fields of the     *)
(* record (vals), the declared count of fields (declared), the JSON        *)
(* object (json), its digest type (cst), whether its digest is the right   *)
(* one (jsonok), and the content.                                          *)

MaxExtras == 2

\* [vals, out]: the fields in the order the reader indexes them, and the
\* bytes of the record as _build_record frames them (lines 613-632), with
\* the count of fields that is declared
LayoutRecord(d, six, cst, jsonok, jsondata, extras, content, declared) ==
    LET raw_json == IF jsondata # <<>> THEN JsonDumps(jsondata) ELSE <<>>
        fjson_cs == IF ~jsonok THEN <<48, 98, 97, 100>>
                    ELSE IF _checksum(raw_json, cst).err = "" THEN _checksum(raw_json, cst).val
                    ELSE Str("0")
        content_cs_type == IF content # <<>> THEN Str("crc32") ELSE Str("none")
        rec_fields ==
            <<_hex(0), Str("UTF-8"), Str("UTF-8"), <<46, 47, 97>>, <<>>, _hex(Len(content)),
              _hex(5), _hex(5), _hex(5), _hex(5), _hex(S_IFREG + MODE_FILE_DEFAULT), _hex(0),
              Str("none"), _hex(0), _hex(0), <<>>, _hex(0), <<>>, _hex(0), _hex(0), _hex(1),
              _hex(0), _hex(0), _hex(0), _hex(Len(d))>>
            \o <<IF jsondata # <<>> THEN Str("json") ELSE Str("none")>>
            \o (IF six THEN <<_hex(Len(jsondata))>> ELSE <<>>)
            \o <<_hex(Len(raw_json)), cst, fjson_cs>>
            \o <<_hex(extras * (1 + Len(d)) + 1 + Len(d)), _hex(extras)>>
            \o [i \in 1..extras |-> <<100 + i>>]
            \o <<Str("none"), content_cs_type>>
        Framed(record_fields_len_hex, header_no_cs, sums) ==
            _append_null(_hex(Len(_append_null(record_fields_len_hex, d)) + Len(header_no_cs)
                              + Len(d)), d)
            \o _append_null(record_fields_len_hex, d) \o header_no_cs \o sums
            \o raw_json \o d \o content \o d
    IN  [vals |-> rec_fields \o <<Str("0"), _checksum(content, content_cs_type).val>>,
         out |-> Framed(_hex(declared), _append_nulls(rec_fields, d),
                        _append_nulls(<<Str("0"), _checksum(content, content_cs_type).val>>,
                                      d))]

\* the count of fields a record of a layout holds (lines 403-423), and the
\* count declared: k fields fewer when k is small, and k fields otherwise
FieldCount(six, extras) == 25 + (IF six THEN 5 ELSE 4) + 2 + extras + 4

Declared(six, extras, k) == IF k < 24 THEN FieldCount(six, extras) - k ELSE k

InitRecord ==
    /\ fs \in {[_default_formatspecs EXCEPT !.format_delimiter = d] : d \in {<<0>>, <<0, 255>>}}
    /\ env \in {[have_lzma |-> TRUE, now |-> 1000, six |-> six, extras |-> n, cst |-> cst,
                 jsonok |-> ok, json |-> j, content |-> c,
                 declared |-> Declared(six, n, k),
                 vals |-> LayoutRecord(fs.format_delimiter, six, cst, ok, j, n, c,
                                       Declared(six, n, k)).vals] :
                  six \in BOOLEAN, n \in {0, MaxExtras}, ok \in BOOLEAN,
                  cst \in {Str("crc32"), Str("none"), <<67, 82, 67, 51, 50>>, <<97, 100>>},
                  j \in {<<>>, <<[k |-> 107, v |-> 1]>>}, c \in {<<104, 105>>},
                  k \in {0, 1, 4, 24, 25, 28}}
    /\ archive = _write_global_header(fs, 1, Str("UTF-8"), Str("crc32")).out
                 \o LayoutRecord(fs.format_delimiter, env.six, env.cst, env.jsonok, env.json,
                                 env.extras, env.content, env.declared).out
                 \o EndMarker(fs.format_delimiter)
    /\ items = <<>>
    /\ compression = [name |-> "none", level |-> LevelNone]
    /\ outmode = "buffer"
    /\ infile = None
    /\ cstype = "crc32"
    /\ pc = "idle"
    /\ idx = 0
    /\ written = <<>>
    /\ disk = <<>>
    /\ open_files = {}
    /\ result = NoResult
    /\ tamper = NoTamper

\* lines 546-560 on the archive; the result keeps the flags of the call, the
\* indices _index_json_and_checks gives for the fields that were read
\* (lines 439-445), and the cursor after the record
ReadRecord ==
    /\ pc = "idle"
    /\ \E listonly \in BOOLEAN, skipchecksum \in BOOLEAN, skipjson \in BOOLEAN :
          LET start == _parse_global_header(archive, fs).pos
              Got(arr, vals, one) ==
                  result' = [op |-> "record", err |-> arr.err, name |-> arr.name,
                             entries |-> arr.entries, listonly |-> listonly,
                             skipchecksum |-> skipchecksum, skipjson |-> skipjson,
                             vals |-> vals, ix |-> _index_json_and_checks(vals),
                             pos |-> one.pos - start]
          IN  Got(archive_to_array_neo(archive, fs, listonly, skipchecksum, TRUE, skipjson,
                                       env.have_lzma),
                  _read_fields(archive, _read_fields(archive, start, 2,
                                                     fs.format_delimiter).pos,
                               env.declared, fs.format_delimiter).vals,
                  _parse_record(archive, start, fs, listonly, skipchecksum, TRUE, skipjson,
                                env.have_lzma))
    /\ pc' = "read"
    /\ UNCHANGED <<fs, items, compression, cstype, outmode, idx, written, disk, open_files,
                   archive, env, tamper, infile>>

SpecRecord == InitRecord /\ [][ReadRecord]_vars

-----------------------------------------------------------------------------
(* unpack_neo into a directory.  disk holds what is below and at outdir:   *)
(* dirs, the paths that are directories, and files, the regular files with *)
(* their bytes and permission bits; a path is the bytes after "outdir/",   *)
(* and the empty path is outdir itself.  env.outdir says what outdir was   *)
(* before the call: "missing", "dir" (with a file "o" in it) or "file".    *)

\* str.lstrip('./') of line 837: every leading '.' and '/' goes
RECURSIVE LStripDotSlash(_)
LStripDotSlash(s) ==
    IF s # <<>> /\ Head(s) \in {46, 47} THEN LStripDotSlash(Tail(s)) ELSE s

\* the file system before the call
OutdirBefore(kind) ==
    IF kind = "dir"
    THEN [dirs |-> {<<>>}, files |-> {[path |-> <<111>>, data |-> <<1>>, mode |-> 420]}]
    ELSE IF kind = "file"
    THEN [dirs |-> {}, files |-> {[path |-> <<>>, data |-> <<1>>, mode |-> 420]}]
    ELSE [dirs |-> {}, files |-> {}]

\* os.makedirs(path): [err, disk]; the path and the directories above it
\* are made, and a file in the way raises
MakeDirs(dk, p) ==
    LET above == {SubSeq(p, 1, i - 1) : i \in {j \in 1..Len(p) : p[j] = 47}} \cup {<<>>, p}
    IN  IF \E x \in dk.files : x.path \in above
        THEN [err |-> "FileExistsError", disk |-> dk]
        ELSE [err |-> "", disk |-> [dk EXCEPT !.dirs = @ \cup above]]

\* lines 836-850, one entry: [err, disk]
MaterialiseEntry(dk, ent) ==
    LET rel == LStripDotSlash(ent.fname)
        path == IF rel # <<>> /\ rel[Len(rel)] = 47 THEN SubSeq(rel, 1, Len(rel) - 1) ELSE rel
        slashes == {j \in 1..Len(rel) : rel[j] = 47}
        d == IF slashes = {} THEN <<>>
             ELSE SubSeq(rel, 1, (CHOOSE j \in slashes : \A k \in slashes : k <= j) - 1)
        Written(made) ==
            IF made.err # "" THEN made
            ELSE IF rel = <<>> \/ rel[Len(rel)] = 47 \/ rel \in made.disk.dirs
            THEN [err |-> "IsADirectoryError", disk |-> made.disk]
            ELSE [err |-> "",
                  disk |-> [made.disk EXCEPT
                              !.files = {x \in @ : x.path # rel}
                                        \cup {[path |-> rel,
                                               data |-> IF ent.fcontent = None THEN <<>>
                                                        ELSE ent.fcontent,
                                               mode |-> ent.fmode % 512]}]]
    IN  IF ent.ftype = 5
        THEN (IF path \in dk.dirs THEN [err |-> "", disk |-> dk] ELSE MakeDirs(dk, path))
        ELSE Written(IF d \in dk.dirs THEN [err |-> "", disk |-> dk] ELSE MakeDirs(dk, d))

\* lines 823 and 832-851: [err, name, disk]
UnpackToDir(data, f, skipchecksum, e, dk) ==
    LET RECURSIVE Loop(_, _)
        Loop(es, cur) ==
            IF es = <<>> \/ cur.err # "" THEN cur
            ELSE Loop(Tail(es), MaterialiseEntry(cur.disk, Head(es)))
        Opened(arr, made) ==
            IF arr.err # "" THEN [err |-> arr.err, name |-> arr.name, disk |-> dk]
            ELSE IF <<>> \notin dk.dirs /\ \E x \in dk.files : x.path = <<>>
            THEN [err |-> "not a directory", name |-> <<>>, disk |-> dk]
            ELSE [err |-> Loop(arr.entries, made).err, name |-> <<>>,
                  disk |-> Loop(arr.entries, made).disk]
    IN  Opened(archive_to_array_neo(data, f, FALSE, skipchecksum, TRUE, FALSE, e.have_lzma),
               [err |-> "", disk |-> [dk EXCEPT !.dirs = @ \cup {<<>>}]])

\* the files "a", ".h", "h" and "d/f" and the directory "d/"
UnpackPool ==
    {FileItem(<<97>>, <<49>>), FileItem(<<46, 104>>, <<50>>), FileItem(<<104>>, <<51>>),
     FileItem(<<100, 47>>, None), FileItem(<<100, 47, 102>>, <<52>>)}

\* the archive pack_neo wrote of the items, then as it is, without its last
\* byte, cut off 5 bytes into its first record, or with the last byte of
\* its last content changed
InitUnpack ==
    /\ fs \in {[_default_formatspecs EXCEPT !.format_delimiter = d] : d \in {<<0>>, <<0, 255>>}}
    /\ items \in {<<>>} \cup {<<x>> : x \in UnpackPool}
                 \cup {s \in {<<x, y>> : x \in UnpackPool, y \in UnpackPool} : s[1] # s[2]}
    /\ env \in {[have_lzma |-> TRUE, now |-> 1000, outdir |-> o, skipchecksum |-> s] :
                  o \in {"missing", "dir", "file"}, s \in BOOLEAN}
    /\ compression = [name |-> "none", level |-> LevelNone]
    /\ cstype = "crc32"
    /\ written = pack_iter_neo(items, fs, Str("none"), LevelNone,
                               <<Str("crc32"), Str("crc32"), Str("crc32")>>, Str("UTF-8"),
                               env).out
    /\ tamper \in {NoTamper, [kind |-> "truncate", entry |-> 0, at |-> 1]}
                  \cup (IF items # <<>> /\ items[Len(items)].data # None
                        THEN {[kind |-> "content", entry |-> Len(items), at |-> 1]}
                        ELSE {})
                  \cup (IF items # <<>>
                        THEN {[kind |-> "truncate", entry |-> 1,
                               at |-> Len(written) - _parse_global_header(written, fs).pos - 5]}
                        ELSE {})
    /\ archive = IF tamper.kind = "truncate"
                 THEN SubSeq(written, 1, Len(written) - tamper.at)
                 ELSE IF tamper.kind = "content"
                 THEN Poke(written,
                           Len(written) - Len(EndMarker(fs.format_delimiter))
                           - Len(fs.format_delimiter),
                           (written[Len(written) - Len(EndMarker(fs.format_delimiter))
                                    - Len(fs.format_delimiter)] + 1) % 256)
                 ELSE written
    /\ disk = OutdirBefore(env.outdir)
    /\ outmode = "dir"
    /\ infile = None
    /\ pc = "idle"
    /\ idx = 0
    /\ open_files = {}
    /\ result = NoResult

\* lines 822-851 with outdir a path
UnpackDir ==
    /\ pc = "idle"
    /\ LET Done(r) ==
               /\ result' = [NoResult EXCEPT !.op = "unpack_dir", !.err = r.err,
                                             !.name = r.name, !.ok = (r.err = "")]
               /\ disk' = r.disk
               /\ pc' = IF r.err = "hang" THEN "hung" ELSE IF r.err = "" THEN "returned"
                        ELSE "raised"
       IN  Done(UnpackToDir(archive, fs, env.skipchecksum, env, disk))
    /\ UNCHANGED <<fs, items, compression, cstype, outmode, idx, written, open_files, archive,
                   env, tamper, infile>>

SpecUnpack == InitUnpack /\ [][UnpackDir]_vars

-----------------------------------------------------------------------------
(* Properties of the writer and its readers.                               *)

\* the items are the list pack_neo makes of a mapping of names to byte
\* strings
FromMapping(its) ==
    \A i \in 1..Len(its) :
        /\ its[i].kind = "dict"
        /\ its[i].is_dir = (its[i].data = None \/ EndsWith(its[i].name, Str("/")))

Keys(its) == {NormName(its[i].name) : i \in 1..Len(its)}

\* whether the writer stores the item as a directory (line 667)
IsDirItem(it) == it.is_dir \/ EndsWith(NormName(it.name), Str("/"))

\* C1: entries with distinct names written by pack_neo (a mapping) or
\* pack_iter_neo (items) to bytes, in the default format and with any of the
\* compressions, are read back by unpack_neo(archive, '-') as one key per
\* entry, each beginning with "./" or "/"; every regular file's value is
\* the input data byte for byte and every directory's value is None.
C1_RoundTrip ==
    (/\ infile = None /\ pc = "returned" /\ outmode = "buffer" /\ result.op = "unpack"
     /\ fs = _default_formatspecs)
    => /\ result.err = ""
       /\ DOMAIN result.map = Keys(items)
       /\ Cardinality(DOMAIN result.map) = Len(items)
       /\ \A k \in DOMAIN result.map : StartsWith(k, Str("./")) \/ StartsWith(k, Str("/"))
       /\ \A i \in 1..Len(items) :
            result.map[NormName(items[i].name)] =
                IF IsDirItem(items[i]) THEN None ELSE items[i].data

\* C1: a compressed one-file mapping has been written and read back
C1_Witness ==
    /\ infile = None /\ pc = "returned" /\ outmode = "buffer"
    /\ result.op = "unpack" /\ result.err = ""
    /\ fs = _default_formatspecs /\ FromMapping(items)
    /\ compression.name = "bz2"
    /\ Len(items) = 1 /\ items[1].data = <<104, 105>>

\* C2: with a content digest type other than none, a changed byte of the
\* stored content of an entry makes validation, and every read that
\* verifies checksums and is not list-only, raise a content checksum
\* mismatch that names the entry; validation does not report OK.
C2_ContentCorruptionDetected ==
    (/\ tamper.kind = "content" /\ cstype # "none"
     /\ result.op \in {"array", "validate", "unpack"})
    => /\ result.err = "Content checksum mismatch"
       /\ result.name = NormName(items[tamper.entry].name)
       /\ ~result.ok

\* C2: a byte of the second entry's content was changed and validation
\* raised the mismatch
C2_Witness ==
    /\ tamper.kind = "content" /\ tamper.entry = 2 /\ cstype = "crc32"
    /\ archive # written
    /\ result.op = "validate" /\ result.err = "Content checksum mismatch"

\* C3: when the header digest stored in a record, or the checksum stored in
\* the global header, is not the digest of the bytes it covers, a read or a
\* validation with checksums enabled raises, and validation reports no
\* header_ok of TRUE for that entry.
C3_HeaderDigestVerified ==
    (/\ tamper.kind \in {"hdigest", "gdigest"} /\ cstype # "none"
     /\ result.op \in {"array", "validate", "unpack"})
    => /\ result.err # ""
       /\ ~result.ok
       /\ \A i \in 1..Len(result.details) :
            (tamper.kind = "hdigest" /\ i = tamper.entry) => ~result.details[i].header_ok

\* C3: a digit of a record's header digest was changed and validation
\* answered OK, with header_ok TRUE for the entry
C3_Witness ==
    /\ tamper.kind = "hdigest" /\ cstype = "crc32" /\ archive # written
    /\ result.op = "validate" /\ result.err = "" /\ result.ok
    /\ result.details[tamper.entry].header_ok

\* C4: an input whose first field is not the magic followed by the version
\* digits of the format is refused by every reader before any record is
\* returned.
C4_BadMagicRejected ==
    (tamper.kind = "magic" /\ result.op # "") => result.err # ""

\* C4: the first byte of the magic was changed and the entries were listed
C4_Witness ==
    /\ tamper.kind = "magic" /\ tamper.at = 1 /\ Len(items) > 0
    /\ result.op = "list" /\ result.err = "" /\ Len(result.names) = Len(items)

\* C5: when pack_neo, pack_iter_neo or repack_neo raised (a bad item, a
\* codec that is not available) or was stopped after the global header and
\* some records and before the end marker, no reader accepts what is in the
\* output file: each raises.
C5_NoEndMarkerRejected ==
    (outmode = "path" /\ pc \in {"raised", "killed"} /\ result.op # "")
    => result.err \notin {"", "hang"}

\* C5: the writer raised after it wrote a record, what it wrote reached the
\* file, and a reader was given the file
C5_Witness ==
    /\ outmode = "path" /\ pc = "raised" /\ idx = 1
    /\ disk = written /\ archive = disk /\ written # <<>>
    /\ result.op = "list" /\ result.err = "Record too short"

\* C6: an input that ends inside a delimited field, before the field's
\* delimiter is complete, makes the read raise; an archive without its
\* final delimiter is not accepted.
C6_TruncatedFieldRejected ==
    (/\ tamper.kind = "truncate" /\ tamper.at <= Len(fs.format_delimiter)
     /\ result.op # "")
    => result.err \notin {"", "hang"}

\* C6: the final delimiter was cut off and validation answered OK
C6_Witness ==
    /\ tamper.kind = "truncate" /\ tamper.at = Len(fs.format_delimiter)
    /\ result.op = "validate" /\ result.err = "" /\ result.ok

\* C7: whatever count of entries the global header holds, an archive whose
\* records end in the end marker is read by archive_to_array_neo and
\* archivefilelistfiles_neo as exactly its records, in order: the same
\* result as with the count the writer wrote.
C7_EndMarkerDecides ==
    (tamper.kind = "count" /\ result.op \in {"array", "list"})
    => /\ result.err = ""
       /\ result.op = "array" =>
            /\ Len(result.entries) = Len(items)
            /\ \A i \in 1..Len(items) : result.entries[i].fname = NormName(items[i].name)
            /\ result = archive_to_array_neo(written, fs, FALSE, FALSE, TRUE, FALSE,
                                             env.have_lzma)
       /\ result.op = "list" =>
            /\ result.names = [i \in 1..Len(items) |-> NormName(items[i].name)]
            /\ result = archivefilelistfiles_neo(written, fs, TRUE, TRUE, env.have_lzma)

\* C7: the count of a two-entry archive was rewritten to zero and both
\* entries were read
C7_Witness ==
    /\ tamper.kind = "count" /\ tamper.at = 0 /\ Len(items) = 2
    /\ result.op = "array" /\ result.err = "" /\ Len(result.entries) = 2

\* C8: when pack_neo, pack_iter_neo or repack_neo has returned or raised,
\* the output file it opened from a path is closed.
C8_OutputClosedOnReturn ==
    pc \in {"returned", "raised"} => "out" \notin open_files

\* C8: the writer has returned True for a path and the file is still open,
\* with nothing of the archive in it
C8_Witness ==
    /\ outmode = "path" /\ pc = "returned" /\ "out" \in open_files
    /\ disk = <<>> /\ written # <<>>

\* C9: with the delimiter \x01 or \x00\xFF, entries whose names hold no
\* delimiter are read back by unpack_neo(archive, '-') by name and bytes,
\* also when the content holds the delimiter or the bytes of the end marker.
C9_DelimiterRoundTrip ==
    (/\ infile = None /\ pc = "returned" /\ outmode = "buffer" /\ result.op = "unpack"
     /\ fs.format_delimiter \in {<<1>>, <<0, 255>>})
    => /\ result.err = ""
       /\ DOMAIN result.map = Keys(items)
       /\ \A i \in 1..Len(items) :
            NormName(items[i].name) \in DOMAIN result.map
            => result.map[NormName(items[i].name)] =
                   IF IsDirItem(items[i]) THEN None ELSE items[i].data

\* C9: a file whose name is three bytes short of a read chunk was written
\* with the delimiter \x00\xFF and read back under a name of three bytes
C9_Witness ==
    /\ pc = "returned" /\ outmode = "buffer" /\ result.op = "unpack" /\ result.err = ""
    /\ fs.format_delimiter = <<0, 255>>
    /\ Len(items) = 1 /\ Len(items[1].name) = LongName
    /\ DOMAIN result.map = {<<46, 47, 0>>}
    /\ result.map[<<46, 47, 0>>] = items[1].data

\* the delimited fields record e of an archive starts with: the two sizes,
\* then the 25 fields of lines 571-596 in their order
HeaderFields(data, f, e) ==
    _read_fields(data, RecordStartOf(data, f, _parse_global_header(data, f).pos, e), 27,
                 f.format_delimiter).vals

\* the JSON side-data of record e
JsonOf(data, f, e) ==
    archive_to_array_neo(data, f, FALSE, FALSE, FALSE, FALSE, TRUE).entries[e].fjson

\* the places, among the 25 fields, of flinkname, the four times, fuid,
\* funame, fgid, fgname, fid, finode, flinkcount, fdev, fdev_minor and
\* fdev_major
KeptFields == {5} \cup (7..10) \cup (15..24)

\* C10: whatever the target compression, every entry repack_neo writes
\* carries the JSON side-data of the input entry and its link target, times,
\* owner ids and names, id, inode, link count and device numbers.
C10_RepackPreserves ==
    (infile # None /\ pc = "returned")
    => \A e \in 1..Len(RepackArray.entries) :
         /\ JsonOf(written, fs, e) = JsonOf(infile, fs, e)
         /\ \A k \in KeptFields :
              HeaderFields(written, fs, e)[k + 2] = HeaderFields(infile, fs, e)[k + 2]

\* C10: repack_neo returned, and the first entry, which came with JSON
\* side-data and a link count of 2, was written with none and a count of 1
C10_Witness ==
    /\ infile # None /\ pc = "returned"
    /\ JsonOf(infile, fs, 1) # <<>> /\ JsonOf(written, fs, 1) = <<>>
    /\ HeaderFields(infile, fs, 1)[23] = <<50>>
    /\ HeaderFields(written, fs, 1)[23] = <<49>>

\* entry e of an archive as it is stored, its content not decompressed
StoredEntry(data, f, e) ==
    archive_to_array_neo(data, f, FALSE, FALSE, FALSE, TRUE, TRUE).entries[e]

\* the codec the compression argument of repack_neo names for an entry of
\* n uncompressed bytes
TargetCodec(n) ==
    IF compression.name = "auto" THEN _auto_pick_for_size(n).algo
    ELSE _norm_algo(Str(compression.name))

\* C11: every entry whose target algorithm, given by name, by an alias or
\* picked by auto, is the codec the entry is recorded with is written by
\* repack_neo with the stored bytes it was read with, and with the same
\* recorded compression and sizes.
C11_SameCodecPassThrough ==
    (infile # None /\ pc = "returned")
    => \A e \in 1..Len(RepackArray.entries) :
         TargetCodec(StoredEntry(infile, fs, e).fsize)
             = _norm_algo(StoredEntry(infile, fs, e).fcompression)
         => /\ StoredEntry(written, fs, e).fcontent = StoredEntry(infile, fs, e).fcontent
            /\ StoredEntry(written, fs, e).fcompression
                   = StoredEntry(infile, fs, e).fcompression
            /\ StoredEntry(written, fs, e).fsize = StoredEntry(infile, fs, e).fsize
            /\ StoredEntry(written, fs, e).fcsize = StoredEntry(infile, fs, e).fcsize

\* C11: an entry stored by zlib at level 9 was repacked under the alias z
\* and written with other stored bytes, those of zlib at level 6
C11_Witness ==
    /\ infile # None /\ pc = "returned" /\ compression.name = "z"
    /\ StoredEntry(infile, fs, 1).fcompression = Str("zlib")
    /\ StoredEntry(infile, fs, 1).fcontent = Deflate(<<104, 105>>, Str("zlib"), 9)
    /\ StoredEntry(written, fs, 1).fcompression = Str("zlib")
    /\ StoredEntry(written, fs, 1).fcontent = Deflate(<<104, 105>>, Str("zlib"), 6)

\* C12: packing under 'auto' with no level, the compression of an entry is
\* decided by the length n of its content alone: none below 16384 bytes
\* (and then the stored size is n), bz2 at level 9 from 262144 bytes on,
\* zlib at level 6 in between.
C12_AutoBySize ==
    (pc = "compressed" /\ compression.name = "auto" /\ compression.level = LevelNone)
    => LET n == items[1].n
       IN  /\ result.err = ""
           /\ result.fsize = n
           /\ n < 16384 => result.algo = Str("none") /\ result.fcsize = n
           /\ (n >= 16384 /\ n < 262144) => result.algo = Str("zlib") /\ result.level = 6
           /\ n >= 262144 => result.algo = Str("bz2") /\ result.level = 9
           /\ n = 16383 => result.algo = Str("none")
           /\ n = 16384 => result.algo = Str("zlib")
           /\ n = 262143 => result.algo = Str("zlib")
           /\ n = 262144 => result.algo = Str("bz2")

C12_Witness ==
    /\ pc = "compressed"
    /\ compression.name = "auto"
    /\ compression.level = LevelNone
    /\ items[1].n = 16384
    /\ result.algo = Str("zlib")
    /\ result.level = 6
    /\ result.fcsize > 16384

\* C13: an item that supplies mtime and mode, as keys of a mapping or as the
\* fourth and fifth member of a tuple, is read back by archive_to_array_neo
\* with fmtime and fmode equal to what it supplied.
C13_TimeAndModeKept ==
    (infile = None /\ pc = "returned" /\ result.op = "array" /\ result.err = "")
    => \A i \in 1..Len(items) :
         /\ items[i].mtime # Missing => result.entries[i].fmtime = items[i].mtime
         /\ items[i].mode # Missing => result.entries[i].fmode = items[i].mode

\* C13: a tuple that supplies time 5 and mode 0100600 was packed at time
\* 1000 and read back with the time of packing and the default mode
C13_Witness ==
    /\ infile = None /\ pc = "returned" /\ result.op = "array" /\ result.err = ""
    /\ Len(items) = 1 /\ items[1].kind = "tuple"
    /\ items[1].mtime = 5 /\ items[1].mode = S_IFREG + 384
    /\ result.entries[1].fmtime = env.now
    /\ result.entries[1].fmode = S_IFREG + MODE_FILE_DEFAULT

\* C14: a read with uncompress enabled that returns has decompressed every
\* entry recorded under a compression: no entry's stored bytes fail to
\* decompress under the recorded name (such a read raises instead), and so
\* no content returned is the still-compressed stored form.
C14_NoSwallowedDecodeError ==
    (result.op \in {"array", "unpack"} /\ result.err = "")
    => \A e \in 1..Len(archive_to_array_neo(archive, fs, TRUE, TRUE, FALSE, TRUE, TRUE).entries) :
         (/\ StoredEntry(archive, fs, e).fcompression \notin {<<>>, Str("none")}
          /\ StoredEntry(archive, fs, e).fcontent # <<>>)
         => _decompress_bytes(StoredEntry(archive, fs, e).fcontent,
                              StoredEntry(archive, fs, e).fcompression, env.have_lzma).err = ""

\* C14: the first stored byte of a zlib-compressed entry was changed in an
\* archive without digests, and unpack_neo returned the stored bytes
C14_Witness ==
    /\ tamper.kind = "content" /\ tamper.at = 1 /\ cstype = "none"
    /\ compression.name = "zlib"
    /\ result.op = "unpack" /\ result.err = ""
    /\ _decompress_bytes(StoredEntry(archive, fs, 1).fcontent, Str("zlib"), TRUE).err # ""
    /\ result.map[NormName(items[1].name)] = StoredEntry(archive, fs, 1).fcontent

\* the content pack_iter_neo compresses for an item
RawOf(it) ==
    IF it.is_dir \/ EndsWith(NormName(it.name), Str("/")) \/ it.data = None THEN <<>>
    ELSE it.data

\* the first attempt of the compression step on an item
FirstTry(it) ==
    PackCompressOnce(RawOf(it), Str(compression.name), compression.level, env.have_lzma)

\* record i of the output, as written so far
WrittenEntry(i) ==
    _parse_record(written, RecordStartOf(written, fs, _parse_global_header(written, fs).pos, i),
                  fs, FALSE, FALSE, FALSE, TRUE, TRUE).rec

\* the loop has written item i, or has raised on it
Dealt(i) == idx >= i \/ (pc = "raised" /\ idx = i - 1)

\* every entry of a pack that returned decompresses, under the name
\* recorded for it, to the content of its item
PackedDecodes ==
    (infile = None /\ outmode = "buffer" /\ pc = "returned")
    => \A i \in 1..Len(items) :
         /\ _decompress_bytes(WrittenEntry(i).fcontent, WrittenEntry(i).fcompression,
                              env.have_lzma).err = ""
         /\ _decompress_bytes(WrittenEntry(i).fcontent, WrittenEntry(i).fcompression,
                              env.have_lzma).data = RawOf(items[i])

\* C15 as stated: an entry whose compression under the chosen algorithm
\* raises (unknown name, lzma unavailable, invalid level) is stored
\* zlib-compressed at the caller's level (6 if none was given) and recorded
\* as zlib; every entry of a pack that returned decompresses under its
\* recorded name to the original bytes.
C15_FallbackStoresZlib ==
    /\ (infile = None /\ outmode = "buffer")
       => \A i \in 1..Len(items) :
            (Dealt(i) /\ items[i].kind # "bad" /\ FirstTry(items[i]).err # "")
            => /\ idx >= i
               /\ WrittenEntry(i).fcompression = Str("zlib")
               /\ WrittenEntry(i).fcontent =
                      Deflate(RawOf(items[i]), Str("zlib"),
                              IF compression.level \in {LevelNone, -1} THEN 6
                              ELSE compression.level)
    /\ PackedDecodes

\* C15, amended: the compression is tried again once, with zlib at the
\* caller's level (6 if none was given).  If zlib takes that level (none
\* given, or -1..9) the entry is stored zlib-compressed at it and recorded
\* as zlib; otherwise the second attempt raises too and the pack raises
\* without writing the entry.  Every entry of a pack that returned
\* decompresses under its recorded name to the original bytes.
C15_FallbackOnce ==
    /\ (infile = None /\ outmode = "buffer")
       => \A i \in 1..Len(items) :
            (Dealt(i) /\ items[i].kind # "bad" /\ FirstTry(items[i]).err # "")
            => IF compression.level = LevelNone \/ compression.level \in -1..9
               THEN /\ idx >= i
                    /\ WrittenEntry(i).fcompression = Str("zlib")
                    /\ WrittenEntry(i).fcontent =
                           Deflate(RawOf(items[i]), Str("zlib"),
                                   IF compression.level \in {LevelNone, -1} THEN 6
                                   ELSE compression.level)
               ELSE pc = "raised" /\ idx = i - 1
    /\ PackedDecodes

\* C15: bz2 refused level 0 and the entry was stored by zlib at level 0
C15_Witness ==
    /\ infile = None /\ outmode = "buffer" /\ pc = "returned"
    /\ compression = [name |-> "bz2", level |-> 0]
    /\ Len(items) = 1
    /\ FirstTry(items[1]).err # ""
    /\ WrittenEntry(1).fcompression = Str("zlib")
    /\ WrittenEntry(1).fcontent = <<120, 0, 104, 105, 2>>

\* the INI file the priority selects: the one PYNEOFILE_INI names, else the
\* one PYARCHIVE_INI names, else neofile.ini
IniPath(host) ==
    IF host.PYNEOFILE_INI \in DOMAIN host.files THEN host.PYNEOFILE_INI
    ELSE IF host.PYARCHIVE_INI \in DOMAIN host.files THEN host.PYARCHIVE_INI
    ELSE IF "neofile.ini" \in DOMAIN host.files THEN "neofile.ini"
    ELSE ""

AllDigits(v) == v # <<>> /\ \A i \in 1..Len(v) : v[i] >= 48 /\ v[i] <= 57

\* C16: a caller's map wins; otherwise the INI file named by
\* PYNEOFILE_INI, else by PYARCHIVE_INI, else neofile.ini; otherwise the
\* defaults.  Every parameter the selected source does not define has its
\* default value (magic NeoFile, version 001, delimiter 0x00, new_style
\* true), and the version consists of digits.
C16_ResolutionPriority ==
    (pc = "resolved" /\ result.op = "formatspecs")
    => /\ AllDigits(result.fs.format_ver)
       /\ IF DOMAIN fs # {}
          THEN /\ "format_name" \notin DOMAIN result.fs
               /\ \A k \in DOMAIN _default_formatspecs :
                    result.fs[k] = IF k \in DOMAIN fs THEN fs[k] ELSE _default_formatspecs[k]
          ELSE IF IniPath(env) = "" \/ "format_name" \notin DOMAIN result.fs
          THEN result.fs = _default_formatspecs
          ELSE \E i \in 1..Len(env.files[IniPath(env)].sections) :
                 LET sec == env.files[IniPath(env)].sections[i]
                 IN  /\ sec.name = result.fs.format_name
                     /\ result.fs.format_magic =
                            IF "magic" \in DOMAIN sec.opts THEN sec.opts["magic"]
                            ELSE _default_formatspecs.format_magic
                     /\ "ver" \notin DOMAIN sec.opts
                            => result.fs.format_ver = _default_formatspecs.format_ver
                     /\ "delimiter" \notin DOMAIN sec.opts
                            => result.fs.format_delimiter = _default_formatspecs.format_delimiter
                     /\ "newstyle" \notin DOMAIN sec.opts
                            => result.fs.new_style = _default_formatspecs.new_style

\* C16: the file PYNEOFILE_INI names selects a section that defines no
\* magic, and the resolved magic is ArchiveFile
C16_Witness ==
    /\ pc = "resolved" /\ result.op = "formatspecs" /\ fs = <<>>
    /\ IniPath(env) = "p.ini" /\ env.PYNEOFILE_INI = "p.ini"
    /\ env.files["p.ini"] = IniPool[1]
    /\ result.fs.format_name = <<110, 101, 111>>
    /\ result.fs.format_ver = <<49, 50>>
    /\ result.fs.format_delimiter = <<1>>
    /\ result.fs.format_magic = Str("ArchiveFile")

\* C17: when [config] of the selected INI file names, through default, a
\* section the file does not have, the resolution raises.
C17_MissingSectionRaises ==
    (/\ pc \in {"resolved", "raised"} /\ result.op = "formatspecs"
     /\ fs = <<>> /\ IniPath(env) # ""
     /\ \E i \in 1..Len(env.files[IniPath(env)].sections) :
          LET sec == env.files[IniPath(env)].sections[i]
          IN  /\ sec.name = Str("config")
              /\ "default" \in DOMAIN sec.opts
              /\ \A j \in 1..Len(env.files[IniPath(env)].sections) :
                   env.files[IniPath(env)].sections[j].name # sec.opts["default"])
    => pc = "raised" /\ result.err # ""

\* C17: default names the section "missing", the file has [config] and
\* [first], and the resolution returned the parameters of [first]
C17_Witness ==
    /\ pc = "resolved" /\ result.op = "formatspecs" /\ fs = <<>>
    /\ IniPath(env) = "neofile.ini"
    /\ env.files["neofile.ini"] = IniPool[2]
    /\ result.err = ""
    /\ result.fs.format_name = <<102, 105, 114, 115, 116>>
    /\ result.fs.format_magic = <<70, 105, 114, 115, 116>>

\* C18: make_empty_file_neo, and pack_iter_neo given no items, write the
\* global header with the count 0 and then the end marker "0","0" and
\* nothing more; of those bytes the parse returns no entries, unpack_neo
\* with outdir '-' returns the empty map, and the validation returns OK.
C18_EmptyArchive ==
    (infile = None /\ items = <<>> /\ outmode = "buffer" /\ pc \in {"returned", "made"})
    => /\ _parse_global_header(written, fs).err = ""
       /\ _parse_global_header(written, fs).fnumfiles = 0
       /\ SubSeq(written, _parse_global_header(written, fs).pos + 1, Len(written))
             = Str("0") \o fs.format_delimiter \o Str("0") \o fs.format_delimiter
       /\ written = _write_global_header(fs, 0, Str("UTF-8"), Str(cstype)).out
                        \o EndMarker(fs.format_delimiter)
       /\ result.op \in {"array", "unpack", "validate"} => result.err = ""
       /\ result.op = "array" => result.entries = <<>>
       /\ result.op = "unpack" => DOMAIN result.map = {}
       /\ result.op = "validate" => result.ok

\* C18: make_empty_file_neo wrote an archive in the default format and
\* unpack_neo returned the empty map
C18_Witness ==
    /\ infile = None /\ items = <<>> /\ outmode = "buffer" /\ pc = "made"
    /\ fs = _default_formatspecs
    /\ Len(written) > 0
    /\ result.op = "unpack" /\ result.err = "" /\ DOMAIN result.map = {}

C20_ListMatchesParse ==
    (/\ infile = None /\ pc = "returned" /\ outmode = "buffer"
     /\ result.op \in {"list", "list_nodirs"}
     /\ archive_to_array_neo(archive, fs, FALSE, FALSE, TRUE, FALSE, env.have_lzma).err = "")
    => LET full == archive_to_array_neo(archive, fs, FALSE, FALSE, TRUE, FALSE,
                                        env.have_lzma).entries
           kept == {i \in 1..Len(full) : result.op = "list" \/ full[i].ftype # 5}
       IN  /\ result.err = ""
           /\ Len(full) = Len(items)
           /\ Len(result.names) = Cardinality(kept)
           /\ \A k \in 1..Len(result.names) :
                /\ StartsWith(result.names[k], Str("./")) \/ StartsWith(result.names[k], Str("/"))
                /\ \E i \in kept :
                     /\ Cardinality({j \in kept : j <= i}) = k
                     /\ result.names[k] = full[i].fname
                     /\ result.names[k] = NormName(items[i].name)

\* C20: a file whose name reaches the end of a read chunk was packed under
\* the delimiter 0x00 0xFF; the full parse and the listing agree, on a name
\* that is not the file's
C20_Witness ==
    /\ infile = None /\ pc = "returned" /\ outmode = "buffer"
    /\ result.op = "list" /\ result.err = ""
    /\ fs.format_delimiter = <<0, 255>>
    /\ Len(items) = 1 /\ Len(items[1].name) = LongName
    /\ archive_to_array_neo(archive, fs, FALSE, FALSE, TRUE, FALSE, env.have_lzma).err = ""
    /\ result.names = <<<<46, 47, 0>>>>

\* C21: from the start of a field that the delimiter follows, whatever the
\* delimiter and the size of a read, _read_cstring returns and gives the
\* bytes before the first occurrence of the delimiter, and leaves the
\* cursor on the byte after that occurrence.
C21_ReadCStringExact ==
    (pc \in {"read", "hung"} /\ result.op = "cstring")
    => LET d == fs.format_delimiter
           first == CHOOSE i \in idx..(Len(archive) - Len(d)) :
                       /\ MatchAt(archive, d, i)
                       /\ \A j \in idx..(i - 1) : ~MatchAt(archive, d, j)
       IN  /\ pc = "read"
           /\ result.out = SubSeq(archive, idx + 1, first)
           /\ result.pos = first + Len(d)

\* C21: with reads of 4096 bytes and the delimiter 0x00 0xFF across the end
\* of the first read, a field of 4095 bytes was returned as one byte
C21_Witness ==
    /\ pc = "read" /\ result.op = "cstring"
    /\ env.chunk = CHUNK /\ idx = 0 /\ fs.format_delimiter = <<0, 255>>
    /\ Len(archive) = CHUNK + 1
    /\ MatchAt(archive, <<0, 255>>, CHUNK - 1)
    /\ result.out = <<0>>
    /\ result.pos = CHUNK + 1

\* a record of SpecRecord that is well formed: the count of fields declared
\* is the count written, and the JSON digest type is a recognised name
WellFormed ==
    /\ env.declared = FieldCount(env.six, env.extras)
    /\ Lower(env.cst) \in CsNames

\* C22: for a well-formed record in either layout and with any count of
\* extra fields, the reader selects the layout that was written and takes
\* the JSON byte size, the JSON digest type and value and the header and
\* content digest types and values from the fields that hold them, so that
\* a full read gives back the JSON object and the content; and for any
\* record the six-slot layout is selected exactly when fields 27 and 28 are
\* non-empty hexadecimal and field 29 is a recognised digest name.
C22_LayoutSelected ==
    (pc = "read" /\ result.op = "record")
    => LET ix == result.ix
           base == IF env.six THEN 27 ELSE 26
           last == FieldCount(env.six, env.extras)
           Opt(i) == IF i <= Len(result.vals) THEN result.vals[i] ELSE <<>>
       IN  /\ WellFormed
              => /\ result.vals = env.vals
                 /\ ix.err = "" /\ ix.six = env.six
                 /\ ix.size = base /\ ix.cst = base + 1 /\ ix.cs = base + 2
                 /\ ix.hct = last - 4 /\ ix.cct = last - 3
                 /\ ix.hcs = last - 2 /\ ix.ccs = last - 1
                 /\ result.vals[ix.size + 1] = (IF env.json = <<>> THEN Str("0")
                                                ELSE _hex(Len(JsonDumps(env.json))))
                 /\ result.vals[ix.cst + 1] = env.cst
                 /\ result.vals[ix.cct + 1] = Str("crc32")
                 /\ result.vals[ix.ccs + 1] = _crc32_hex(env.content)
                 /\ (env.jsonok \/ result.skipjson \/ result.listonly \/ result.skipchecksum)
                    => /\ result.err = ""
                       /\ Len(result.entries) = 1
                       /\ result.entries[1].fname = <<46, 47, 97>>
                       /\ ~result.listonly => result.entries[1].fcontent = env.content
                       /\ ~(result.listonly \/ result.skipjson)
                          => result.entries[1].fjson = env.json
           /\ ix.err = ""
              => (ix.six <=> /\ IsHex(Opt(27)) /\ IsHex(Opt(28))
                             /\ Lower(Opt(29)) \in CsNames)

\* C22: a five-slot record with extra fields and a JSON object was read in
\* full, and gave the object and the content back
C22_Witness ==
    /\ pc = "read" /\ result.op = "record" /\ WellFormed
    /\ ~env.six /\ env.extras = MaxExtras /\ env.json # <<>> /\ env.jsonok
    /\ fs.format_delimiter = <<0, 255>>
    /\ ~result.listonly /\ ~result.skipjson /\ ~result.skipchecksum
    /\ ~result.ix.six /\ result.ix.size = 26 /\ result.ix.ccs = 25 + 4 + 2 + MaxExtras + 3
    /\ result.err = ""
    /\ result.entries[1].fjson = env.json
    /\ result.entries[1].fcontent = env.content

\* the first 32 delimited fields of record e of the output: the two sizes,
\* the 25 fixed fields, the JSON type name and the four fields after it
PreambleOf(e) ==
    _read_fields(written, RecordStartOf(written, fs, _parse_global_header(written, fs).pos, e),
                 32, fs.format_delimiter).vals

\* C23: every record pack_neo and repack_neo write has the five-slot JSON
\* preamble: one size field after the JSON type name, which is the byte
\* size, then the digest type and the digest, and so 35 fields in all.
C23_FiveSlotWritten ==
    (pc = "returned" /\ outmode = "buffer")
    => \A e \in 1..(IF infile = None THEN Len(items) ELSE Len(RepackArray.entries)) :
         /\ IntOr0(PreambleOf(e)[2]).val = FieldCount(FALSE, 0)
         /\ IsHex(PreambleOf(e)[29])
         /\ Lower(PreambleOf(e)[30]) \in CsNames
         /\ IsHex(PreambleOf(e)[31])

\* C23: pack_neo returned, and its first record declares 36 fields and has
\* two hexadecimal fields between the JSON type name and the digest type
C23_Witness ==
    /\ pc = "returned" /\ outmode = "buffer" /\ infile = None /\ Len(items) >= 1
    /\ fs.format_delimiter = <<0>>
    /\ IntOr0(PreambleOf(1)[2]).val = FieldCount(TRUE, 0)
    /\ PreambleOf(1)[28] = Str("none")
    /\ IsHex(PreambleOf(1)[29]) /\ IsHex(PreambleOf(1)[30])
    /\ PreambleOf(1)[31] = Str("none")
    /\ PreambleOf(1)[32] = Str("0")

\* C24: a record that declares fewer fields than its layout and its count of
\* extra fields need is rejected with an error and no entry is returned,
\* whatever the flags of the read; and a read that returns took the JSON
\* size, the digest types and the digests from places below the declared
\* count of fields.
C24_ShortRecordRejected ==
    (pc = "read" /\ result.op = "record")
    => /\ env.declared < FieldCount(env.six, env.extras)
          => result.err # "" /\ result.err # "hang" /\ result.entries = <<>>
       /\ result.err = ""
          => /\ Len(result.vals) = env.declared
             /\ \A i \in {result.ix.size, result.ix.cst, result.ix.cs, result.ix.cs + 2,
                           result.ix.hct, result.ix.cct, result.ix.hcs, result.ix.ccs} :
                  i >= 0 /\ i < env.declared

\* C24: a six-slot record that declares all its fields but the last, the
\* content digest, was read with the checksums skipped and rejected with an
\* IndexError
C24_Witness ==
    /\ pc = "read" /\ result.op = "record"
    /\ env.six /\ env.extras = MaxExtras /\ Lower(env.cst) \in CsNames
    /\ env.declared = FieldCount(env.six, env.extras) - 1
    /\ result.skipchecksum /\ ~result.listonly
    /\ result.ix.err = "" /\ result.ix.ccs = env.declared
    /\ result.err = "IndexError" /\ result.entries = <<>>

\* the archive of SpecRecord with another JSON object of the same length in
\* its record, and the digest of that object
MatchingArchive ==
    _write_global_header(fs, 1, Str("UTF-8"), Str("crc32")).out
    \o LayoutRecord(fs.format_delimiter, env.six, env.cst, TRUE, <<[k |-> 107, v |-> 2]>>,
                    env.extras, env.content, env.declared).out
    \o EndMarker(fs.format_delimiter)

\* C25: for a well-formed record with JSON bytes whose JSON digest does not
\* match them, a read with skipjson false, listonly false and the checksums
\* on fails with a JSON checksum mismatch that names the entry and returns
\* no entry; a read with skipjson or listonly returns, and gives the entry
\* that the same read gives for a record with a matching JSON payload of
\* the same length; and every read that returns leaves the cursor at the
\* end of the record, the end marker being read after it.
C25_JsonDigestMismatch ==
    (pc = "read" /\ result.op = "record" /\ WellFormed /\ env.json # <<>> /\ ~env.jsonok)
    => /\ (~result.skipjson /\ ~result.listonly /\ ~result.skipchecksum)
          => /\ result.err = "JSON checksum mismatch"
             /\ result.name = <<46, 47, 97>>
             /\ result.entries = <<>>
       /\ (result.skipjson \/ result.listonly)
          => /\ result.err = ""
             /\ Len(result.entries) = 1
             /\ result.entries
                = archive_to_array_neo(MatchingArchive, fs, result.listonly,
                                       result.skipchecksum, TRUE, result.skipjson,
                                       env.have_lzma).entries
       /\ result.err = ""
          => result.pos = Len(LayoutRecord(fs.format_delimiter, env.six, env.cst, env.jsonok,
                                          env.json, env.extras, env.content,
                                          env.declared).out)

\* C25: a record whose JSON digest does not match was read with skipjson and
\* the checksums on, and its entry came back with the content and no JSON
C25_Witness ==
    /\ pc = "read" /\ result.op = "record" /\ WellFormed
    /\ env.json # <<>> /\ ~env.jsonok /\ env.cst = Str("crc32")
    /\ result.skipjson /\ ~result.listonly /\ ~result.skipchecksum
    /\ result.err = ""
    /\ result.entries[1].fcontent = env.content
    /\ result.entries[1].fjson = <<>>
    /\ archive_to_array_neo(archive, fs, FALSE, FALSE, TRUE, FALSE, env.have_lzma).err
       = "JSON checksum mismatch"

\* C26: the writes of pack_neo and repack_neo are the global header, then
\* one record for each input item in the order of the input, then, when the
\* call returns, one end marker and nothing more; and the count of entries
\* in the global header is the number of records written.
C26_WriteOrder ==
    LET d == fs.format_delimiter
        n == IF infile = None THEN Len(items) ELSE Len(RepackArray.entries)
        encoding == IF infile = None THEN Str("UTF-8")
                    ELSE _parse_global_header(infile, fs).fencoding
        Rec(i) == IF infile = None
                  THEN PackItemRecord(fs, items[i], i - 1, Str(compression.name),
                                      compression.level, Checksumtypes, encoding, env).out
                  ELSE RepackItemRecord(fs, RepackArray.entries[i], i - 1,
                                        Str(compression.name), compression.level,
                                        Checksumtypes, encoding, env).out
        RECURSIVE Recs(_)
        Recs(k) == IF k = 0 THEN <<>> ELSE Recs(k - 1) \o Rec(k)
        Header == _write_global_header(fs, n, encoding, Checksumtypes[1]).out
    IN  /\ pc \in {"loop", "repack"} => written = Header \o Recs(idx)
        /\ pc = "returned"
           => /\ idx = n
              /\ written = Header \o Recs(n) \o <<48>> \o d \o <<48>> \o d
              /\ _parse_global_header(written, fs).err = ""
              /\ _parse_global_header(written, fs).fnumfiles = n

\* C26: pack_neo returned after writing the records of two items
C26_Witness ==
    /\ infile = None /\ pc = "returned" /\ Len(items) = MaxItems /\ idx = MaxItems
    /\ _parse_global_header(written, fs).fnumfiles = MaxItems
    /\ fs.format_delimiter = <<0>>
    /\ LET arr == archive_to_array_neo(written, fs, TRUE, TRUE, FALSE, TRUE, TRUE)
       IN  /\ arr.err = ""
           /\ Len(arr.entries) = MaxItems
           /\ \A i \in 1..MaxItems : arr.entries[i].fname = NormName(items[i].name)
    /\ EndsWith(written, <<48, 0, 48, 0>>)

\* C27: in every record pack_neo and repack_neo write, by the pass-through
\* and by the recompressing path, the compressed size is the number of
\* stored content bytes, the uncompressed size is the length of those bytes
\* decompressed under the recorded algorithm, and the two sizes are equal
\* when that algorithm is none.  (The records are read back with the
\* checksums verified; the names are shorter than one read.)
C27_SizesRecorded ==
    (pc = "returned" /\ outmode = "buffer" /\ \A i \in 1..Len(items) : Len(items[i].name) < LongName)
    => LET arr == archive_to_array_neo(written, fs, FALSE, FALSE, FALSE, TRUE, TRUE)
       IN  /\ arr.err = ""
           /\ Len(arr.entries) = idx
           /\ \A e \in 1..Len(arr.entries) :
                LET w == arr.entries[e]
                    dec == _decompress_bytes(w.fcontent, w.fcompression, TRUE)
                IN  /\ w.fcsize = Len(w.fcontent)
                    /\ dec.err = ""
                    /\ w.fsize = Len(dec.data)
                    /\ _norm_algo(w.fcompression) = Str("none") => w.fsize = w.fcsize

\* C27: on a host without lzma, repack_neo with the target lzma passed an
\* lzma entry of 2 bytes through and recorded the length of its stored
\* bytes as its uncompressed size
C27_Witness ==
    /\ pc = "returned" /\ outmode = "buffer" /\ infile = InputArchive(fs, <<LzmaEntry>>)
    /\ compression.name = "lzma" /\ ~env.have_lzma
    /\ StoredEntry(infile, fs, 1).fsize = 2
    /\ StoredEntry(written, fs, 1).fcompression = Str("lzma")
    /\ StoredEntry(written, fs, 1).fcontent = LzmaEntry.stored
    /\ StoredEntry(written, fs, 1).fsize = Len(LzmaEntry.stored)
    /\ _decompress_bytes(LzmaEntry.stored, Str("lzma"), TRUE).data = <<104, 105>>

\* C28: on every input, cut short or not, and under every delimiter,
\* archive_to_array_neo comes to an end: it returns or it raises, and no
\* _read_cstring of it goes on reading without end.
C28_ReadTerminates ==
    result.op = "array" => result.err # "hang"

\* C28: an archive written under the delimiter 0x00 0xFF lost its last
\* byte, and archive_to_array_neo never came back from reading the end
\* marker's last field, which the input ends in without a delimiter
C28_Witness ==
    /\ tamper.kind = "truncate" /\ tamper.at = 1
    /\ fs.format_delimiter = <<0, 255>>
    /\ result.op = "array" /\ result.err = "hang"
    /\ EndsWith(archive, <<48, 0, 255, 48, 0>>)
    /\ ReadCStringN(archive, Len(archive) - 2, <<0, 255>>, CHUNK, <<>>,
                    {<<Len(archive) - 2, <<>>>>}).hang

\* C29: unpack_neo into a directory reads and verifies the whole archive
\* before it makes anything: when a record cannot be parsed or fails a
\* checksum, or when outdir is there and is no directory, the call raises
\* and outdir and what is below it are as they were before the call.
C29_VerifyBeforeWrite ==
    (result.op = "unpack_dir"
     /\ \/ env.outdir = "file"
        \/ archive_to_array_neo(archive, fs, FALSE, env.skipchecksum, TRUE, FALSE,
                                env.have_lzma).err # "")
    => /\ pc = "raised"
       /\ result.err \notin {"", "hang"}
       /\ disk = OutdirBefore(env.outdir)

\* C29: an archive under the delimiter 0x00 0xFF was cut off inside its
\* first record; unpack_neo into a directory that was not there made
\* nothing and never came back, where it is to raise
C29_Witness ==
    /\ result.op = "unpack_dir" /\ pc = "hung" /\ result.err = "hang"
    /\ tamper.kind = "truncate" /\ tamper.entry = 1
    /\ fs.format_delimiter = <<0, 255>>
    /\ env.outdir = "missing" /\ ~env.skipchecksum
    /\ Len(archive) = _parse_global_header(written, fs).pos + 5
    /\ disk = OutdirBefore("missing")

\* C30: when unpack_neo has written an archive into a directory, every
\* entry of normalised name "./P" is at the path P below outdir, P as it is
\* in the name, also when P begins with a dot: a file with the entry's
\* content, or a directory; so entries of different names are at different
\* paths.
C30_PathIsName ==
    (result.op = "unpack_dir" /\ pc = "returned" /\ tamper = NoTamper)
    => /\ \A i \in 1..Len(items) :
            LET P == SubSeq(NormName(items[i].name), 3, Len(NormName(items[i].name)))
            IN  IF items[i].is_dir THEN SubSeq(P, 1, Len(P) - 1) \in disk.dirs
                ELSE \E x \in disk.files : x.path = P /\ x.data = items[i].data
       /\ Cardinality({x \in disk.files : x \notin OutdirBefore(env.outdir).files})
          = Cardinality({i \in 1..Len(items) : ~items[i].is_dir})

\* C30: the files ".h" and "h" were unpacked into a new directory, and the
\* directory holds the one file "h", with the content of the entry "./h"
C30_Witness ==
    /\ result.op = "unpack_dir" /\ pc = "returned" /\ tamper = NoTamper
    /\ env.outdir = "missing"
    /\ items = <<FileItem(<<46, 104>>, <<50>>), FileItem(<<104>>, <<51>>)>>
    /\ disk.dirs = {<<>>}
    /\ disk.files = {[path |-> <<104>>, data |-> <<51>>, mode |-> MODE_FILE_DEFAULT]}

====
